---------------------------- MODULE Spec2Model ----------------------------
(***************************************************************************)
(* A model of constantitus/simple_preprocessor:                            *)
(*   - src/arithmetic_parser.cpp: the tokenizer, the shunting-yard         *)
(*     converter and the postfix evaluator behind EvaluateExpression;      *)
(*   - src/simple_preprocessor.cpp: SimplePreprocessor::Parse, its macro   *)
(*     pass, directive parser, conditional stack and output buffers.       *)
(*                                                                         *)
(* Text is modelled as sequences of one-character strings, so that every   *)
(* character-level rule of the code is computed and not assumed.           *)
(***************************************************************************)
EXTENDS Integers, Sequences, FiniteSets, TLC

(***************************************************************************)
(* Bounds of the model.                                                    *)
(***************************************************************************)
\* longest expression drawn exhaustively from ExprAlphabet
MaxExprLen == 3
\* largest digit used as a literal in the structured expression families
MaxDigit == 1

(***************************************************************************)
(* Characters.                                                             *)
(***************************************************************************)
Digits == {"0", "1", "2", "3", "4", "5", "6", "7", "8", "9"}

DigitVal == ("0" :> 0) @@ ("1" :> 1) @@ ("2" :> 2) @@ ("3" :> 3) @@ ("4" :> 4) @@ ("5" :> 5) @@ ("6" :> 6) @@ ("7" :> 7) @@ ("8" :> 8) @@ ("9" :> 9)

DigitChar == [n \in 0..9 |-> CHOOSE d \in Digits : DigitVal[d] = n]

\* the character codes of the characters the model uses
Ascii ==
    ("\t" :> 9) @@ ("\n" :> 10) @@ (" " :> 32) @@ ("!" :> 33) @@ ("#" :> 35)
    @@ ("%" :> 37) @@ ("&" :> 38) @@ ("(" :> 40) @@ (")" :> 41) @@ ("*" :> 42)
    @@ ("+" :> 43) @@ ("-" :> 45) @@ ("/" :> 47)
    @@ ("0" :> 48) @@ ("1" :> 49) @@ ("2" :> 50) @@ ("3" :> 51) @@ ("4" :> 52)
    @@ ("5" :> 53) @@ ("6" :> 54) @@ ("7" :> 55) @@ ("8" :> 56) @@ ("9" :> 57)
    @@ ("<" :> 60) @@ ("=" :> 61) @@ (">" :> 62) @@ ("@" :> 64)
    @@ ("A" :> 65) @@ ("B" :> 66) @@ ("X" :> 88) @@ ("Y" :> 89) @@ ("Z" :> 90) @@ ("^" :> 94) @@ ("_" :> 95)
    @@ ("a" :> 97) @@ ("b" :> 98) @@ ("d" :> 100) @@ ("e" :> 101) @@ ("f" :> 102)
    @@ ("i" :> 105) @@ ("l" :> 108) @@ ("n" :> 110) @@ ("o" :> 111) @@ ("p" :> 112)
    @@ ("s" :> 115) @@ ("t" :> 116) @@ ("u" :> 117) @@ ("x" :> 120) @@ ("z" :> 122)
    @@ ("|" :> 124) @@ ("~" :> 126)

Chars == DOMAIN Ascii

\* arithmetic_parser.cpp, IsLegalCharacter
IsLegalCharacter(c) ==
    /\ Ascii[c] >= Ascii[" "]
    /\ Ascii[c] <= Ascii["|"]
    /\ c \notin {"{", "\\", "[", "]", "@", "?", ";", ":", ".", "`", "'", "\"", "$", "#"}

\* the case labels of the switch in ArithmeticTokenizer::Tokenize
Delimiters == {" ", "!", "%", "&", "(", ")", "*", "+", "-", "/", "<", "=", ">", "|"}

(***************************************************************************)
(* int arithmetic as the C++ operators compute it.  TLC's own integers are *)
(* 32 bits wide, so every test for overflow is made before the operation.  *)
(***************************************************************************)
IntMax == 2147483647

IntMin == -IntMax - 1

InInt(n) == IntMin <= n /\ n <= IntMax

\* |n| for n # IntMin
Abs(n) == IF n < 0 THEN -n ELSE n

\* 2^31 \div y and whether y divides 2^31, for 0 < y <= IntMax
TwoTo31Div(y) == (IntMax \div y) + (IF IntMax % y = y - 1 THEN 1 ELSE 0)

DividesTwoTo31(y) == IntMax % y = y - 1

\* C++ integer division truncates towards zero (b # 0, and not IntMin / -1)
CDiv(a, b) ==
    CASE b = IntMin -> IF a = IntMin THEN 1 ELSE 0
      [] a = IntMin -> IF b > 0 THEN -TwoTo31Div(b) ELSE TwoTo31Div(-b)
      [] OTHER      -> LET q == Abs(a) \div Abs(b)
                       IN  IF (a < 0) = (b < 0) THEN q ELSE -q

\* C++ remainder: a == (a / b) * b + a % b
CRem(a, b) == a - CDiv(a, b) * b

AddOverflows(a, b) == (b > 0 /\ a > IntMax - b) \/ (b < 0 /\ a < IntMin - b)

SubOverflows(a, b) == (b < 0 /\ a > IntMax + b) \/ (b > 0 /\ a < IntMin + b)

MulOverflows(a, b) ==
    CASE a = 0 \/ b = 0 -> FALSE
      [] a = IntMin     -> b # 1
      [] b = IntMin     -> a # 1
      [] OTHER          -> LET x == Abs(a)
                               y == Abs(b)
                           IN  IF (a < 0) = (b < 0)
                               THEN x > IntMax \div y
                               ELSE x > IntMax \div y /\ ~(DividesTwoTo31(y) /\ x = TwoTo31Div(y))

BoolInt(b) == IF b THEN 1 ELSE 0

RECURSIVE Bitwise(_, _, _)
\* a bitwise operator on two ints in two's complement; f is "and", "or" or "xor".
\* n \div 2 is the arithmetic shift, and 0 and -1 are the two all-equal bit patterns.
Bitwise(f, a, b) ==
    IF a \in {0, -1} /\ b \in {0, -1}
    THEN CASE f = "and" -> IF a = -1 /\ b = -1 THEN -1 ELSE 0
           [] f = "or"  -> IF a = -1 \/ b = -1 THEN -1 ELSE 0
           [] OTHER     -> IF a # b THEN -1 ELSE 0
    ELSE LET ba  == a % 2
             bb  == b % 2
             bit == CASE f = "and" -> IF ba = 1 /\ bb = 1 THEN 1 ELSE 0
                      [] f = "or"  -> IF ba = 1 \/ bb = 1 THEN 1 ELSE 0
                      [] OTHER     -> IF ba # bb THEN 1 ELSE 0
         IN  bit + 2 * Bitwise(f, a \div 2, b \div 2)

RECURSIVE Pow2(_)
\* 2^n for n in 0..30
Pow2(n) == IF n = 0 THEN 1 ELSE 2 * Pow2(n - 1)

\* right << left for a count in 0..31 and no overflow
ShiftLeft(right, left) == IF right = 0 THEN 0 ELSE right * Pow2(left)

\* right >> left for a count in 0..31: an arithmetic shift
ShiftRight(right, left) ==
    IF left = 31 THEN (IF right < 0 THEN -1 ELSE 0) ELSE right \div Pow2(left)

ShiftLeftOverflows(right, left) ==
    right > 0 /\ (left = 31 \/ right > IntMax \div Pow2(left))

(***************************************************************************)
(* Tokens (struct Token).  An operator code is the text of the operator,   *)
(* as the enum Operator packs one or two characters into a short.          *)
(***************************************************************************)
PRECEDENCE_NONE == 0
PRECEDENCE_MULT_DIV == 1
PRECEDENCE_ADD_SUBT == 2
PRECEDENCE_BITSHIFT == 3
PRECEDENCE_RELATIONAL == 4
PRECEDENCE_EQUALITY == 5
PRECEDENCE_BIT_AND == 6
PRECEDENCE_BIT_XOR == 7
PRECEDENCE_BIT_OR == 8
PRECEDENCE_LOGICAL_AND == 9
PRECEDENCE_LOGICAL_OR == 10

GetOperatorPrecedence(oper) ==
    CASE oper \in {"*", "/", "%"}            -> PRECEDENCE_MULT_DIV
      [] oper \in {"+", "-"}                 -> PRECEDENCE_ADD_SUBT
      [] oper \in {"<<", ">>"}               -> PRECEDENCE_BITSHIFT
      [] oper \in {"<", ">", "<=", ">="}     -> PRECEDENCE_RELATIONAL
      [] oper = "|"                          -> PRECEDENCE_BIT_OR
      [] oper = "^"                          -> PRECEDENCE_BIT_XOR
      [] oper = "&"                          -> PRECEDENCE_BIT_AND
      [] oper = "||"                         -> PRECEDENCE_LOGICAL_OR
      [] oper = "&&"                         -> PRECEDENCE_LOGICAL_AND
      [] oper \in {"==", "!="}               -> PRECEDENCE_EQUALITY
      [] OTHER                               -> PRECEDENCE_NONE

\* { .oper = c, .type = Token::OPERATOR }: the precedence is left zero
OperatorToken(c) == [type |-> "OPERATOR", oper |-> c, precedence |-> PRECEDENCE_NONE, operand |-> 0]

\* { .operand = number, .type = Token::OPERAND }
OperandToken(n) == [type |-> "OPERAND", oper |-> "", precedence |-> PRECEDENCE_NONE, operand |-> n]

Last(s) == s[Len(s)]

Front(s) == SubSeq(s, 1, Len(s) - 1)

Drop(s, n) == SubSeq(s, n + 1, Len(s))

WithBackOper(tokens, oper) == [tokens EXCEPT ![Len(tokens)].oper = oper]

(***************************************************************************)
(* ArithmeticTokenizer::Parse(char).  The switch over the previous         *)
(* operator has no break: a case whose test fails falls through to the     *)
(* tests of the cases below it, down to default.                           *)
(***************************************************************************)
\* the position of the case label of the previous operator, 0 for default
SwitchEntry(prev) ==
    CASE prev = "<" -> 1
      [] prev = ">" -> 2
      [] prev = "=" -> 3
      [] prev = "!" -> 4
      [] prev = "|" -> 5
      [] prev = "&" -> 6
      [] prev = ")" -> 7
      [] OTHER      -> 0

\* the test of the k-th case
CaseTest(k, c) ==
    CASE k \in 1..4 -> c = "="
      [] k = 5      -> c = "|"
      [] k = 6      -> c = "&"
      [] OTHER      -> c # ")"

\* the operator the k-th case stores in the last token (cases 1..6)
CaseOper(k) ==
    CASE k = 1 -> "<="
      [] k = 2 -> ">="
      [] k = 3 -> "=="
      [] k = 4 -> "!="
      [] k = 5 -> "||"
      [] OTHER -> "&&"

ParseChar(st, c) ==
    LET tokens    == st.tokens
        prev_type == IF tokens = <<>> THEN "NONE" ELSE Last(tokens).type
        prev      == IF tokens = <<>> THEN "" ELSE Last(tokens).oper
        pushed    == [st EXCEPT !.tokens = Append(tokens, OperatorToken(c))]
        entry     == SwitchEntry(prev)
        taken     == {k \in 1..7 : k >= entry /\ CaseTest(k, c)}
        first     == CHOOSE k \in taken : \A j \in taken : k <= j
    IN  IF c = "(" THEN pushed
        ELSE IF prev_type # "OPERATOR" THEN pushed
        ELSE IF entry = 0 \/ taken = {} THEN [st EXCEPT !.failed = TRUE]
        ELSE IF first = 7 THEN pushed
        ELSE [st EXCEPT !.tokens = WithBackOper(tokens, CaseOper(first))]

(***************************************************************************)
(* std::strtol(text, &end, 10): skips white space, reads an optional sign  *)
(* and the decimal digits that follow.  Returns the value and the number   *)
(* of characters consumed, 0 when no digit was found.                      *)
(***************************************************************************)
IsSpace(c) == c \in {" ", "\t", "\n"}

RECURSIVE SkipSpace(_, _)
SkipSpace(text, i) ==
    IF i <= Len(text) /\ IsSpace(text[i]) THEN SkipSpace(text, i + 1) ELSE i

RECURSIVE ReadDigits(_, _, _)
\* [value, i]: the value of the digits from position i on, added to acc
ReadDigits(text, i, acc) ==
    IF i <= Len(text) /\ text[i] \in Digits
    THEN ReadDigits(text, i + 1, 10 * acc + DigitVal[text[i]])
    ELSE [value |-> acc, i |-> i]

StrToL(text) ==
    LET s    == SkipSpace(text, 1)
        sign == IF s <= Len(text) /\ text[s] \in {"+", "-"} THEN 1 ELSE 0
        r    == ReadDigits(text, s + sign, 0)
    IN  IF r.i = s + sign THEN [value |-> 0, consumed |-> 0]
        ELSE [value |-> IF sign = 1 /\ text[s] = "-" THEN -r.value ELSE r.value, consumed |-> r.i - 1]

(***************************************************************************)
(* ArithmeticTokenizer::Parse(std::string_view).  The character that       *)
(* follows the run in memory is a delimiter or the terminator of the       *)
(* expression, never a digit, so strtol stops inside the run or at its end.*)
(* A run of at most nine digits is an int as it stands.                    *)
(***************************************************************************)
\* Parse(std::string_view) keeping what strtol read of a run it did not read whole
ParseViewKeepsNumber(st, tok_view) ==
    IF st.tokens # <<>> /\ Last(st.tokens).type = "OPERAND"
    THEN [st EXCEPT !.failed = TRUE]
    ELSE [st EXCEPT !.tokens = Append(st.tokens, OperandToken(StrToL(tok_view).value))]

ParseView(st, tok_view) ==
    IF st.tokens # <<>> /\ Last(st.tokens).type = "OPERAND"
    THEN [st EXCEPT !.failed = TRUE]
    ELSE LET r      == StrToL(tok_view)
             number == IF r.consumed # Len(tok_view) THEN 0 ELSE r.value
         IN  [st EXCEPT !.tokens = Append(st.tokens, OperandToken(number))]

(***************************************************************************)
(* ArithmeticTokenizer::Tokenize.                                          *)
(***************************************************************************)
RECURSIVE TokenizeLoop(_, _, _)
\* the while loop: expr is the remaining view, ptr the length of the pending run
TokenizeLoop(st, expr, ptr) ==
    IF ptr >= Len(expr)
    THEN IF ptr > 0 THEN ParseView(st, SubSeq(expr, 1, ptr)) ELSE st
    ELSE LET c == expr[ptr + 1]
         IN  IF c \in Delimiters
             THEN LET st1   == IF ptr > 0 THEN ParseView(st, SubSeq(expr, 1, ptr)) ELSE st
                      expr1 == IF ptr > 0 THEN Drop(expr, ptr) ELSE expr
                  IN  IF st1.failed THEN st1
                      ELSE TokenizeLoop(IF c # " " THEN ParseChar(st1, c) ELSE st1, Drop(expr1, 1), 0)
             ELSE TokenizeLoop(st, expr, ptr + 1)

\* a new ArithmeticTokenizer
NewTokenizer == [tokens |-> <<>>, failed |-> FALSE]

\* Tokenize with the legality test made on the first character only
TokenizeFirstCharacterTested(expr) ==
    IF expr # <<>> /\ ~IsLegalCharacter(expr[1])
    THEN NewTokenizer
    ELSE TokenizeLoop(NewTokenizer, expr, 0)

Tokenize(expr) ==
    IF \E i \in 1..Len(expr) : ~IsLegalCharacter(expr[i])
    THEN NewTokenizer
    ELSE TokenizeLoop(NewTokenizer, expr, 0)

(***************************************************************************)
(* ArithmeticTokenizer::ShuntingYard.  A stack is a sequence whose last    *)
(* element is the top.                                                     *)
(***************************************************************************)
RECURSIVE PopToParen(_, _)
\* the loop of the ")" branch: moves operators to the output down to a "("
PopToParen(out_queue, oper_stack) ==
    IF oper_stack = <<>> \/ Last(oper_stack).oper = "("
    THEN [out_queue |-> out_queue, oper_stack |-> oper_stack]
    ELSE PopToParen(Append(out_queue, Last(oper_stack)), Front(oper_stack))

RECURSIVE PopByPrecedenceStrict(_, _, _)
\* PopByPrecedence with > in place of >=: operators of one class are left on the stack
PopByPrecedenceStrict(o1, out_queue, oper_stack) ==
    IF oper_stack # <<>> /\ Last(oper_stack).oper # "(" /\ o1.precedence > Last(oper_stack).precedence
    THEN PopByPrecedenceStrict(o1, Append(out_queue, Last(oper_stack)), Front(oper_stack))
    ELSE [out_queue |-> out_queue, oper_stack |-> oper_stack]

RECURSIVE PopByPrecedence(_, _, _)
\* the loop of the operator branch: pops o2 while o1.precedence >= o2.precedence
PopByPrecedence(o1, out_queue, oper_stack) ==
    IF oper_stack # <<>> /\ Last(oper_stack).oper # "(" /\ o1.precedence >= Last(oper_stack).precedence
    THEN PopByPrecedence(o1, Append(out_queue, Last(oper_stack)), Front(oper_stack))
    ELSE [out_queue |-> out_queue, oper_stack |-> oper_stack]

RECURSIVE PopRemaining(_, _)
\* the loop after the tokens: stops at the first "(" it finds on top
PopRemaining(out_queue, oper_stack) ==
    IF oper_stack # <<>> /\ Last(oper_stack).oper # "("
    THEN PopRemaining(Append(out_queue, Last(oper_stack)), Front(oper_stack))
    ELSE out_queue

RECURSIVE ShuntingYardLoop(_, _, _)
ShuntingYardLoop(tokens, out_queue, oper_stack) ==
    IF tokens = <<>>
    THEN [queue |-> PopRemaining(out_queue, oper_stack), failed |-> FALSE, tokens |-> <<>>]
    ELSE LET front == Head(tokens)
             token == IF front.type = "OPERATOR"
                      THEN [front EXCEPT !.precedence = GetOperatorPrecedence(front.oper)]
                      ELSE front
             rest  == Tail(tokens)
         IN  IF token.type = "OPERAND"
             THEN ShuntingYardLoop(rest, Append(out_queue, token), oper_stack)
             ELSE IF token.oper = "("
             THEN ShuntingYardLoop(rest, out_queue, Append(oper_stack, token))
             ELSE IF token.oper = ")"
             THEN LET p == PopToParen(out_queue, oper_stack)
                  IN  IF p.oper_stack = <<>>
                      THEN [queue |-> <<>>, failed |-> TRUE, tokens |-> rest]
                      ELSE ShuntingYardLoop(rest, p.out_queue, Front(p.oper_stack))
             ELSE LET p == PopByPrecedence(token, out_queue, oper_stack)
                  IN  ShuntingYardLoop(rest, p.out_queue, Append(p.oper_stack, token))

ShuntingYard(tokens) == ShuntingYardLoop(tokens, <<>>, <<>>)

(***************************************************************************)
(* The body of the evaluation loop of EvaluateExpression, for one token of *)
(* the postfix queue.  status is "run" (the loop goes on), "fail" (return  *)
(* {0, false}) or "ub" (the C++ operation has undefined behaviour: signed  *)
(* overflow, or a shift count outside 0..31).                              *)
(***************************************************************************)
\* the operators the switch over t.oper has a case for
EvaluatedOperators == {"*", "/", "%", "+", "-", "<<", ">>", "<", "<=", ">", ">=", "|", "^", "&", "||", "&&", "==", "!="}

\* the value the matching case pushes, as a mathematical integer
ApplyOperator(oper, right, left) ==
    CASE oper = "*"  -> right * left
      [] oper = "/"  -> CDiv(right, left)
      [] oper = "%"  -> CRem(right, left)
      [] oper = "+"  -> right + left
      [] oper = "-"  -> right - left
      [] oper = "<<" -> ShiftLeft(right, left)
      [] oper = ">>" -> ShiftRight(right, left)
      [] oper = "<"  -> BoolInt(right < left)
      [] oper = "<=" -> BoolInt(right <= left)
      [] oper = ">"  -> BoolInt(right > left)
      [] oper = ">=" -> BoolInt(right >= left)
      [] oper = "|"  -> Bitwise("or", right, left)
      [] oper = "^"  -> Bitwise("xor", right, left)
      [] oper = "&"  -> Bitwise("and", right, left)
      [] oper = "||" -> BoolInt(right # 0 \/ left # 0)
      [] oper = "&&" -> BoolInt(right # 0 /\ left # 0)
      [] oper = "==" -> BoolInt(right = left)
      [] oper = "!=" -> BoolInt(right # left)
      [] OTHER       -> 0

\* whether the C++ operation is undefined for these operands: a shift count
\* outside 0..31, a shift of a negative value to the left, signed overflow
IsUndefined(oper, right, left) ==
    \/ oper \in {"<<", ">>"} /\ (left < 0 \/ left > 31)
    \/ oper = "<<" /\ left \in 0..31 /\ (right < 0 \/ ShiftLeftOverflows(right, left))
    \/ oper = "*" /\ MulOverflows(right, left)
    \/ oper = "+" /\ AddOverflows(right, left)
    \/ oper = "-" /\ SubOverflows(right, left)
    \/ oper \in {"/", "%"} /\ right = IntMin /\ left = -1

\* the test that guards division and remainder
DivisionByZero(oper, left) == oper \in {"/", "%"} /\ left = 0

\* EvaluateToken with the zero test made on the dividend (right) instead of the
\* divisor (left); a division by a zero divisor that slips through pushes 0
EvaluateTokenZeroTestOnDividend(operands, t) ==
    IF t.type = "OPERAND"
    THEN [operands |-> Append(operands, t.operand), status |-> "run"]
    ELSE IF Len(operands) < 2
    THEN [operands |-> operands, status |-> "fail"]
    ELSE LET left  == operands[Len(operands)]
             right == operands[Len(operands) - 1]
             rest  == SubSeq(operands, 1, Len(operands) - 2)
         IN  IF DivisionByZero(t.oper, right)
             THEN [operands |-> rest, status |-> "fail"]
             ELSE IF DivisionByZero(t.oper, left) \/ IsUndefined(t.oper, right, left)
             THEN [operands |-> Append(rest, 0), status |-> "run"]
             ELSE [operands |-> IF t.oper \in EvaluatedOperators THEN Append(rest, ApplyOperator(t.oper, right, left)) ELSE rest, status |-> "run"]

EvaluateToken(operands, t) ==
    IF t.type = "OPERAND"
    THEN [operands |-> Append(operands, t.operand), status |-> "run"]
    ELSE IF Len(operands) < 2
    THEN [operands |-> operands, status |-> "fail"]
    ELSE LET left  == operands[Len(operands)]
             right == operands[Len(operands) - 1]
             rest  == SubSeq(operands, 1, Len(operands) - 2)
         IN  IF DivisionByZero(t.oper, left)
             THEN [operands |-> rest, status |-> "fail"]
             ELSE IF IsUndefined(t.oper, right, left)
             THEN [operands |-> rest, status |-> "ub"]
             ELSE LET v == ApplyOperator(t.oper, right, left)
                  IN  [operands |-> IF t.oper \in EvaluatedOperators THEN Append(rest, v) ELSE rest, status |-> "run"]

RECURSIVE EvaluateQueue(_, _)
\* the while loop over the postfix queue
EvaluateQueue(operands, queue) ==
    IF queue = <<>> THEN [operands |-> operands, status |-> "run"]
    ELSE LET r == EvaluateToken(operands, Head(queue))
         IN  IF r.status = "run" THEN EvaluateQueue(r.operands, Tail(queue)) ELSE r

\* the values EvaluateExpression returns
Failure == [value |-> 0, ok |-> FALSE, ub |-> FALSE]

Undefined == [value |-> 0, ok |-> FALSE, ub |-> TRUE]

\* FinalResult without the test of the number of operands
FinalResultAnyCount(operands) ==
    IF Len(operands) = 0 THEN Failure
    ELSE [value |-> operands[1], ok |-> TRUE, ub |-> FALSE]

\* the end of EvaluateExpression: exactly one operand must be left
FinalResult(operands) ==
    IF Len(operands) # 1 THEN Failure
    ELSE [value |-> operands[1], ok |-> TRUE, ub |-> FALSE]

\* the return of EvaluateExpression once the loop over the queue has ended in r
EvaluateReturn(r) ==
    CASE r.status = "fail" -> Failure
      [] r.status = "ub"   -> Undefined
      [] OTHER             -> FinalResult(r.operands)

\* EvaluateExpression from the result sy of ShuntingYard on
EvaluatePostfix(sy) ==
    IF sy.failed THEN Failure ELSE EvaluateReturn(EvaluateQueue(<<>>, sy.queue))

\* EvaluateExpression from the result of Tokenize on
EvaluateTokens(tokenizer) ==
    IF tokenizer.failed \/ Len(tokenizer.tokens) = 0 THEN Failure
    ELSE EvaluatePostfix(ShuntingYard(tokenizer.tokens))

\* std::pair<int, bool> EvaluateExpression(std::string_view expr), as a function
EvaluateExpression(expr) == EvaluateTokens(Tokenize(expr))

(***************************************************************************)
(* The expressions the evaluator is run on.                                *)
(***************************************************************************)
ExprAlphabet == {"0", "1", " ", "!", "&", "(", ")", "+", "/", "<", "=", "|", "^", "a", "@", "~"}

\* every character sequence of at most MaxExprLen characters
RawExprs == UNION {[1..n -> ExprAlphabet] : n \in 0..MaxExprLen}

\* the binary operators of the language and their text
OperatorText ==
    ("*" :> <<"*">>) @@ ("/" :> <<"/">>) @@ ("%" :> <<"%">>) @@ ("+" :> <<"+">>) @@ ("-" :> <<"-">>)
    @@ ("<<" :> <<"<", "<">>) @@ (">>" :> <<">", ">">>) @@ ("<" :> <<"<">>) @@ (">" :> <<">">>)
    @@ ("<=" :> <<"<", "=">>) @@ (">=" :> <<">", "=">>) @@ ("==" :> <<"=", "=">>) @@ ("!=" :> <<"!", "=">>)
    @@ ("|" :> <<"|">>) @@ ("^" :> <<"^">>) @@ ("&" :> <<"&">>)
    @@ ("&&" :> <<"&", "&">>) @@ ("||" :> <<"|", "|">>)

BinaryOperators == DOMAIN OperatorText

Literals == {<<DigitChar[n]>> : n \in 0..MaxDigit}

Spacings == {<<>>, <<" ">>}

\* a OP b, written with and without spaces
BinExprs == {a \o sp \o OperatorText[op] \o sp \o b : a \in Literals, b \in Literals, op \in BinaryOperators, sp \in Spacings}

\* a OP b OP c
ChainExprs == {a \o <<" ">> \o OperatorText[o1] \o <<" ">> \o b \o <<" ">> \o OperatorText[o2] \o <<" ">> \o c : a \in Literals, b \in Literals, c \in Literals, o1 \in BinaryOperators, o2 \in BinaryOperators}

\* (a OP b) OP c, a OP (b OP c), ((a OP b)) and (a OP (b OP c))
ParenExprs ==
    {<<"(">> \o a \o OperatorText[o1] \o b \o <<")">> \o OperatorText[o2] \o c : a \in Literals, b \in Literals, c \in Literals, o1 \in BinaryOperators, o2 \in BinaryOperators}
    \cup {a \o OperatorText[o1] \o <<"(">> \o b \o OperatorText[o2] \o c \o <<")">> : a \in Literals, b \in Literals, c \in Literals, o1 \in BinaryOperators, o2 \in BinaryOperators}
    \cup {<<"(", "(">> \o a \o OperatorText[o1] \o b \o <<")", ")">> : a \in Literals, b \in Literals, o1 \in BinaryOperators}
    \cup {<<"(">> \o a \o OperatorText[o1] \o <<"(">> \o b \o OperatorText[o2] \o c \o <<")", ")">> : a \in Literals, b \in Literals, c \in Literals, o1 \in BinaryOperators, o2 \in BinaryOperators}

\* the expressions the specification and the header give as examples
NamedExprs ==
    { <<"2", " ", "+", " ", "3", " ", "*", " ", "4">>,
      <<"(", "2", " ", "+", " ", "3", ")", " ", "*", " ", "4">>,
      <<"1", " ", "/", " ", "0">>,
      <<"0", " ", "/", " ", "5">>,
      <<"0", " ", "%", " ", "5">>,
      <<"1", " ", "+">>,
      <<"1", " ", "@", " ", "2">>,
      <<"1", " ", "<", "<", " ", "2">>,
      <<"8", " ", ">", ">", " ", "1">>,
      <<"6", " ", "^", " ", "3">>,
      <<"8", " ", "-", " ", "3", " ", "-", " ", "2">>,
      <<"1", " ", "|", " ", "2", " ", "&", " ", "3">>,
      <<"(", "(", "1", " ", "+", " ", "2", ")", ")">>,
      <<"(", "1", " ", "+", " ", "(", "2", " ", "*", " ", "3", ")", ")">>,
      <<"1", " ", "+", " ", "(", "2">>,
      <<"1", " ", "(", "2", " ", "=", " ", "3", ")">>,
      <<"a", "b", "a", " ", "+", " ", "1">>,
      <<"1", "2", "3", "a">>,
      <<"a", " ", "+", " ", "-", " ", "b">>,
      <<"0", " ", "-", " ", "7", " ", "/", " ", "2">> }

Exprs == RawExprs \cup BinExprs \cup ChainExprs \cup ParenExprs \cup NamedExprs

(***************************************************************************)
(* simple_preprocessor.cpp: the macro pass.                                *)
(***************************************************************************)
\* the directive prefix _PFX
Prefix == "#"

\* MaybePartOfWord with the digits and the underscore left out
MaybePartOfWordLettersOnly(c) ==
    \/ Ascii["a"] <= Ascii[c] /\ Ascii[c] <= Ascii["z"]
    \/ Ascii["A"] <= Ascii[c] /\ Ascii[c] <= Ascii["Z"]

MaybePartOfWord(c) ==
    \/ Ascii["0"] <= Ascii[c] /\ Ascii[c] <= Ascii["9"]
    \/ Ascii["a"] <= Ascii[c] /\ Ascii[c] <= Ascii["z"]
    \/ Ascii["A"] <= Ascii[c] /\ Ascii[c] <= Ascii["Z"]
    \/ c = "_"

RECURSIVE RenderNat(_)
RenderNat(n) ==
    IF n < 10 THEN <<DigitChar[n]>> ELSE RenderNat(n \div 10) \o <<DigitChar[n % 10]>>

\* std::snprintf(value_buf, value_len, "%i", *pvalue), without the terminator
RenderInt(n) == IF n < 0 THEN <<"-">> \o RenderNat(-n) ELSE RenderNat(n)

\* the two alternatives of std::variant<std::string, int>
IntValue(n) == [holds |-> "int", int |-> n, string |-> <<>>]

StringValue(s) == [holds |-> "string", int |-> 0, string |-> s]

\* the text appended for a macro value
ValueText(value_var) ==
    IF value_var.holds = "int" THEN RenderInt(value_var.int) ELSE value_var.string

\* the loop that fills internal.defines: a later definition of a key replaces an earlier one
CopyDefines(defs) ==
    [k \in {defs[i].key : i \in DOMAIN defs} |->
        LET last == CHOOSE i \in DOMAIN defs : defs[i].key = k /\ \A j \in DOMAIN defs : defs[j].key = k => j <= i
        IN  defs[last].value]

RECURSIVE MacroLoop(_, _, _, _, _, _, _)
\* The while loop of FindAndReplaceMacro over the line `line` (newline
\* included).  line_view and current_view are kept as the number of
\* characters removed from the front of the line: lv and cv.
MacroLoop(defines, line, tmp_buf, found, lv, cv, word_len) ==
    IF ~(word_len < Len(line) - cv)
    THEN [found |-> found, tmp_buf |-> IF found THEN tmp_buf \o SubSeq(line, lv + 1, cv) ELSE tmp_buf]
    ELSE IF MaybePartOfWord(line[cv + word_len + 1])
    THEN MacroLoop(defines, line, tmp_buf, found, lv, cv, word_len + 1)
    ELSE IF word_len = 0
    THEN MacroLoop(defines, line, tmp_buf, found, lv, cv + 1, 0)
    ELSE LET before_len == cv - lv
             word       == SubSeq(line, cv + 1, cv + word_len)
         IN  IF word \in DOMAIN defines
             THEN MacroLoop(defines, line, tmp_buf \o SubSeq(line, lv + 1, lv + before_len) \o ValueText(defines[word]), TRUE, lv + before_len + word_len, cv + word_len, 0)
             ELSE IF found
             THEN MacroLoop(defines, line, tmp_buf \o SubSeq(line, lv + 1, lv + before_len + word_len), found, lv + before_len + word_len, cv + word_len, 0)
             ELSE MacroLoop(defines, line, tmp_buf, found, lv, cv + word_len, 0)

\* bool FindAndReplaceMacro(std::string& tmp_buf, std::string_view line_view): [found, tmp_buf]
FindAndReplaceMacro(defines, line_view) == MacroLoop(defines, line_view, <<>>, FALSE, 0, 0, 0)

(***************************************************************************)
(* simple_preprocessor.cpp: directives.  A row is a line without its       *)
(* newline; the character that follows it in memory, in the input buffer   *)
(* as in tmp_buf, is the newline.                                          *)
(***************************************************************************)
COND_NONE == 0

COND_IF == 1

COND_ELIF == 2

COND_ELSE == 3

COND_ENDIF == 4

\* a directive ParseDirective gives to DirectOutput, and one it does not know
DIRECTIVE_OUTPUT == 5

DIRECTIVE_UNKNOWN == 6

\* *expr.data(): the first character of the view, the newline behind an empty one
FirstCharacter(view) == IF view = <<>> THEN "\n" ELSE view[1]

RECURSIVE SkipBlanks(_)
\* while (*expr.data() == ' ' || *expr.data() == '\t') expr.remove_prefix(1);
SkipBlanks(view) ==
    IF FirstCharacter(view) \in {" ", "\t"} THEN SkipBlanks(Tail(view)) ELSE view

\* expr.compare(0, n, word) == 0
StartsWith(view, word) ==
    Len(view) >= Len(word) /\ SubSeq(view, 1, Len(word)) = word

\* INTERNAL_FAIL
Fail(internal) == [internal EXCEPT !.failed = TRUE]

\* ParserInternal internal, as constructed
NewParserInternal ==
    [defines |-> <<>>, current_output_idx |-> 0, condition |-> <<>>, current_line |-> 0, failed |-> FALSE]

\* the end of TokenizeAndEvaluate without INTERNAL_FAIL: a failed evaluation is taken as false
EvaluationResultUnflagged(internal, result) ==
    IF result.ok = FALSE
    THEN [internal |-> internal, value |-> FALSE]
    ELSE [internal |-> internal, value |-> result.value # 0]

\* the end of TokenizeAndEvaluate, from the pair `result` of EvaluateExpression
EvaluationResult(internal, result) ==
    IF result.ok = FALSE
    THEN [internal |-> Fail(internal), value |-> FALSE]
    ELSE [internal |-> internal, value |-> result.value # 0]

\* [internal, value]: the flag the evaluation may set, and the bool returned
TokenizeAndEvaluate(internal, expr) ==
    EvaluationResult(internal, EvaluateExpression(SkipBlanks(expr)))

ConditionalBranch(result, consumed, in_true_loop, cond) ==
    [result |-> result, consumed |-> consumed, in_true_loop |-> in_true_loop, cond |-> cond]

\* the locals ParseExpression starts with: their defaults, or the fields of the top of the stack
TopOrDefault(condition) ==
    IF condition = <<>> THEN ConditionalBranch(TRUE, FALSE, TRUE, COND_NONE) ELSE Last(condition)

\* condition.top() = branch
WithTop(condition, branch) == [condition EXCEPT ![Len(condition)] = branch]

\* case COND_IF pushing the in_true_loop of the level beneath as it is
CaseIfAncestorOnly(top, r) ==
    [r.internal EXCEPT !.condition = Append(@, ConditionalBranch(r.value, r.value, top.in_true_loop, COND_IF))]

\* case COND_IF, r the result of TokenizeAndEvaluate
CaseIf(top, r) ==
    [r.internal EXCEPT !.condition = Append(@, ConditionalBranch(r.value, r.value, top.in_true_loop /\ top.result, COND_IF))]

\* case COND_ELIF past its two tests, r the result of TokenizeAndEvaluate
CaseElif(top, r) ==
    [r.internal EXCEPT !.condition = WithTop(@, ConditionalBranch((~top.consumed /\ r.value) /\ top.in_true_loop, top.consumed \/ r.value, top.in_true_loop, COND_ELIF))]

\* case COND_ELIF with a result that does not look at consumed
CaseElifIgnoresConsumed(top, r) ==
    [r.internal EXCEPT !.condition = WithTop(@, ConditionalBranch(r.value /\ top.in_true_loop, top.consumed \/ r.value, top.in_true_loop, COND_ELIF))]

\* case COND_ELSE closing the level instead of writing its top
CaseElsePops(top, internal) ==
    [internal EXCEPT !.condition = Front(@)]

\* case COND_ELSE past its two tests
CaseElse(top, internal) ==
    [internal EXCEPT !.condition = WithTop(@, ConditionalBranch(~top.consumed /\ top.in_true_loop, TRUE, top.in_true_loop, COND_ELSE))]

\* ParseExpression whose elif branch does not look at consumed
ParseExpressionElifIgnoresConsumed(internal, expr, eval) ==
    LET top            == TopOrDefault(internal.condition)
        in_nested_loop == internal.condition # <<>>
    IN  CASE eval = COND_IF -> CaseIf(top, TokenizeAndEvaluate(internal, expr))
          [] eval = COND_ELIF ->
               IF top.cond = COND_ELSE \/ ~in_nested_loop THEN Fail(internal)
               ELSE CaseElifIgnoresConsumed(top, TokenizeAndEvaluate(internal, expr))
          [] eval = COND_ELSE ->
               IF top.cond = COND_ELSE \/ ~in_nested_loop THEN Fail(internal)
               ELSE CaseElse(top, internal)
          [] eval = COND_ENDIF ->
               IF ~in_nested_loop THEN Fail(internal)
               ELSE [internal EXCEPT !.condition = Front(@)]
          [] OTHER -> Fail(internal)

\* void ParseExpression(std::string_view expr, Conditional eval); top holds
\* the locals consumed, prev_result, in_true_loop and prev_cond
ParseExpression(internal, expr, eval) ==
    LET top            == TopOrDefault(internal.condition)
        prev_cond      == top.cond
        in_nested_loop == internal.condition # <<>>
    IN  CASE eval = COND_IF -> CaseIf(top, TokenizeAndEvaluate(internal, expr))
          [] eval = COND_ELIF ->
               IF prev_cond = COND_ELSE THEN Fail(internal)
               ELSE IF ~in_nested_loop THEN Fail(internal)
               ELSE CaseElif(top, TokenizeAndEvaluate(internal, expr))
          [] eval = COND_ELSE ->
               IF prev_cond = COND_ELSE THEN Fail(internal)
               ELSE IF ~in_nested_loop THEN Fail(internal)
               ELSE CaseElse(top, internal)
          [] eval = COND_ENDIF ->
               IF ~in_nested_loop THEN Fail(internal)
               ELSE [internal EXCEPT !.condition = Front(@)]
          [] OTHER -> Fail(internal)

\* DirectOutput leaving the index alone where the top of the stack does not emit
DirectOutputWhenEmitting(internal, expr, beyond) ==
    LET value  == SkipBlanks(expr)
        r      == StrToL(value \o <<"\n">> \o beyond)
        number == r.value
    IN  IF r.consumed # Len(value)
        THEN Fail(internal)
        ELSE IF internal.condition # <<>> /\ ~Last(internal.condition).result
        THEN internal
        ELSE [internal EXCEPT !.current_output_idx = number]

(***************************************************************************)
(* void DirectOutput(std::string_view expr).  strtol reads from the value  *)
(* on through the memory behind it: the newline of the row and then        *)
(* `beyond`, the text that follows that newline.  current_output_idx is an *)
(* unsigned int: the model keeps the int assigned to it, a negative n      *)
(* standing for 2^32 + n.                                                  *)
(***************************************************************************)
DirectOutput(internal, expr, beyond) ==
    LET value  == SkipBlanks(expr)
        r      == StrToL(value \o <<"\n">> \o beyond)
        number == r.value
    IN  IF r.consumed # Len(value)
        THEN Fail(internal)
        ELSE [internal EXCEPT !.current_output_idx = number]

\* The keyword tests of ParseDirective, in their order: the directive found,
\* the view given to its handler, and whether the test of the space that
\* must follow the keyword failed (goto no_value).
DirectiveOf(row) ==
    LET expr  == SkipBlanks(Tail(row))
        After(n) == Drop(expr, n)
    IN  IF StartsWith(expr, <<"i", "f">>)
        THEN [eval |-> COND_IF, expr |-> After(2), no_value |-> FirstCharacter(After(2)) # " "]
        ELSE IF StartsWith(expr, <<"e", "l", "i", "f">>)
        THEN [eval |-> COND_ELIF, expr |-> After(4), no_value |-> FirstCharacter(After(4)) # " "]
        ELSE IF StartsWith(expr, <<"o", "u", "t", "p", "u", "t">>)
        THEN [eval |-> DIRECTIVE_OUTPUT, expr |-> After(6), no_value |-> FirstCharacter(After(6)) # " "]
        ELSE IF StartsWith(expr, <<"e", "l", "s", "e">>)
        THEN [eval |-> COND_ELSE, expr |-> After(4), no_value |-> FALSE]
        ELSE IF StartsWith(expr, <<"e", "n", "d", "i", "f">>)
        THEN [eval |-> COND_ENDIF, expr |-> After(4), no_value |-> FALSE]
        ELSE [eval |-> DIRECTIVE_UNKNOWN, expr |-> expr, no_value |-> FALSE]

\* simple_preprocessor.hpp defines the macro itself, before anything a user writes
PARSER_IGNORE_UNKNOWN_DIRECTIVE == TRUE

\* bool ParseDirective(std::string_view expr): [internal, append].  An unknown
\* directive returns true where PARSER_IGNORE_UNKNOWN_DIRECTIVE is defined; where
\* it is not, INTERNAL_LOG prints and false is returned, the flag left as it is.
ParseDirective(internal, row, beyond) ==
    LET d == DirectiveOf(row)
    IN  IF d.no_value
        THEN [internal |-> Fail(internal), append |-> FALSE]
        ELSE IF d.eval = DIRECTIVE_UNKNOWN
        THEN [internal |-> internal, append |-> PARSER_IGNORE_UNKNOWN_DIRECTIVE]
        ELSE IF d.eval = DIRECTIVE_OUTPUT
        THEN [internal |-> DirectOutput(internal, d.expr, beyond), append |-> FALSE]
        ELSE [internal |-> ParseExpression(internal, d.expr, d.eval), append |-> FALSE]

(***************************************************************************)
(* SimplePreprocessor::Parse: one round of its loop over the lines, up to  *)
(* the choice of the output buffer.                                        *)
(***************************************************************************)
\* RowFinal with row_final taken from tmp_buf whether or not a macro was found
RowFinalFromBuffer(defines, line, rest) ==
    LET m == FindAndReplaceMacro(defines, line \o <<"\n">>)
    IN  [row_final |-> Front(m.tmp_buf), beyond |-> <<>>, found |-> m.found]

\* the line as the directive parser and the output see it, and what lies behind its newline
RowFinal(defines, line, rest) ==
    LET m == FindAndReplaceMacro(defines, line \o <<"\n">>)
    IN  IF m.found
        THEN [row_final |-> Front(m.tmp_buf), beyond |-> <<>>, found |-> TRUE]
        ELSE [row_final |-> line, beyond |-> rest, found |-> FALSE]

\* what a round of the loop keeps of its row: [internal, append, row_final]
Row(d, row_final) == [internal |-> d.internal, append |-> d.append, row_final |-> row_final]

\* bool append = true; if (*row_final.data() == _PFX) append = internal.ParseDirective(row_final);
ParseRowFinal(internal, row) ==
    IF FirstCharacter(row.row_final) = Prefix
    THEN Row(ParseDirective(internal, row.row_final, row.beyond), row.row_final)
    ELSE Row([internal |-> internal, append |-> TRUE], row.row_final)

\* lines 319-334: the line counted, the macro pass and the directive
ParseRow(internal, line, rest) ==
    ParseRowFinal([internal EXCEPT !.current_line = @ + 1], RowFinal(internal.defines, line, rest))

\* if (append) { if (condition.empty() || condition.top().result == true)
Emits(internal, append) ==
    append /\ (internal.condition = <<>> \/ Last(internal.condition).result = TRUE)

\* result.resize(n): n default-constructed strings more, or the first n kept
Resize(result, n) ==
    IF n <= Len(result) THEN SubSeq(result, 1, n)
    ELSE result \o [i \in 1..(n - Len(result)) |-> <<>>]

\* current_output_idx + 1 in unsigned arithmetic: 2^32 - 1 wraps to 0
IndexPlusOne(idx) == IF idx = -1 THEN 0 ELSE idx + 1

\* current_output_idx >= result.size(), the index converted to size_t
IndexBeyond(idx, result) == idx < 0 \/ idx >= Len(result)

\* lines 359-364 with the test of the conditional stack left out
ParseReturnUnchecked(internal, result) == result

\* lines 359-364: the vector Parse returns once the loop has ended
ParseReturn(internal, result) ==
    IF internal.condition # <<>> THEN <<>> ELSE result

(***************************************************************************)
(* The input of Parse.  A line is given without its newline.  No line      *)
(* begins with white space, a sign or a digit, so that the strtol of       *)
(* DirectOutput, which reads on behind the newline of its row, stops at    *)
(* the first character of the next line.                                   *)
(***************************************************************************)
TextLines == {<<"a">>, <<"X">>}

ConditionalLines ==
    { <<"#", "i", "f", " ", "1">>,
      <<"#", "i", "f", " ", "0">>,
      <<"#", "i", "f", " ", "1", " ", "+">>,
      <<"#", "i", "f">>,
      <<"#", "e", "l", "i", "f", " ", "X">>,
      <<"#", "e", "l", "i", "f", " ", "0">>,
      <<"#", "e", "l", "i", "f", " ", "(">>,
      <<"#", "e", "l", "s", "e">>,
      <<"#", "e", "n", "d", "i", "f">> }

OutputLines ==
    { <<"#", "o", "u", "t", "p", "u", "t", " ", "0">>,
      <<"#", "o", "u", "t", "p", "u", "t", " ", "1">>,
      <<"#", "o", "u", "t", "p", "u", "t", " ", "-", "1">>,
      <<"#", "o", "u", "t", "p", "u", "t", " ", "x">>,
      <<"#", "o", "u", "t", "p", "u", "t", " ", "1", "x">>,
      <<"#", "o", "u", "t", "p", "u", "t", " ">> }

UnknownLines == {<<"#", "f", "o", "o">>}

LineSet == TextLines \cup ConditionalLines \cup OutputLines \cup UnknownLines

\* the macros the preprocessor is constructed with
Defines ==
    << [key |-> <<"X">>, value |-> IntValue(1)],
       [key |-> <<"Y">>, value |-> StringValue(<<"b">>)] >>

\* longest line handed to the macro pass on its own, without its newline
MaxLineLen == 4

\* the characters of those lines
MacroAlphabet == {"X", "Y", "a", "1", "_", " "}

MacroLines == UNION {[1..n -> MacroAlphabet] : n \in 0..MaxLineLen}

\* the macro tables the pass is run with: none, an integer and a string, two
\* macros whose values are each other's names, a negative integer and an
\* empty string, a name that extends another name, names of digits and underscores
MacroTables ==
    { <<>>,
      Defines,
      << [key |-> <<"X">>, value |-> StringValue(<<"Y">>)], [key |-> <<"Y">>, value |-> StringValue(<<"X">>)] >>,
      << [key |-> <<"X">>, value |-> IntValue(-12)], [key |-> <<"a", "1">>, value |-> StringValue(<<>>)] >>,
      << [key |-> <<"X", "Y">>, value |-> StringValue(<<"a", " ", "a">>)], [key |-> <<"X">>, value |-> IntValue(0)] >>,
      << [key |-> <<"1">>, value |-> IntValue(10)], [key |-> <<"_", "a">>, value |-> StringValue(<<" ">>)] >> }


(***************************************************************************)
(* State.                                                                  *)
(***************************************************************************)
VARIABLES
    \* one call of EvaluateExpression
    expr,        \* the argument
    epc,         \* where the call is: "start", "tokenized", "evaluating", "returned"
    tokenizer,   \* ArithmeticTokenizer tokenizer: [tokens, failed]
    queue,       \* std::queue<Token> queue
    operands,    \* std::vector<int> operands
    ret,         \* the pair returned
    underflow,   \* history: an operator was reached with fewer than two operands
    tokenized,   \* history: the tokenizer as Tokenize left it
    postfix,     \* history: the queue as ShuntingYard returned it
    \* one call of SimplePreprocessor::Parse
    global_defines, \* the macro definitions of the preprocessor
    pc,          \* where the call is: "call", "loop", "end", "returned", "crashed"
    internal,    \* ParserInternal internal
    result,      \* std::vector<std::string> result
    returned,    \* the vector returned
    input,       \* history: the lines read so far
    emitted,     \* history: the rows appended, with the index and the stack they were appended under
    chain,       \* history: the branches of the last conditional opened on an empty stack
    evaluated,   \* history: the calls of TokenizeAndEvaluate, each with the line it was made on and whether it succeeded
    earlier,     \* history: an earlier call on this preprocessor failed, ended with an open conditional or selected an index other than 0
    \* one macro pass over one line
    mdefs,       \* the macro definitions of the preprocessor
    mline,       \* the line, without its newline
    mpc,         \* where the pass is: "start", "passed", "row"
    mpass,       \* what FindAndReplaceMacro gave: [found, tmp_buf]
    mrow         \* row_final

evalVars == <<expr, epc, tokenizer, queue, operands, ret, underflow, tokenized, postfix>>

parseVars == <<global_defines, pc, internal, result, returned, input, emitted, chain, evaluated, earlier>>

macroVars == <<mdefs, mline, mpc, mpass, mrow>>

vars == <<evalVars, parseVars, macroVars>>

\* nothing from the macro pass yet
NoPass == [found |-> FALSE, tmp_buf |-> <<>>]

\* the variables of the macro pass while a whole call is looked at
NoMacro ==
    /\ mdefs = <<>>
    /\ mline = <<>>
    /\ mpc = "none"
    /\ mpass = NoPass
    /\ mrow = <<>>

\* the variables of Parse while EvaluateExpression is looked at on its own
NoParse ==
    /\ global_defines = <<>>
    /\ pc = "none"
    /\ internal = NewParserInternal
    /\ result = <<>>
    /\ returned = <<>>
    /\ input = <<>>
    /\ emitted = <<>>
    /\ chain = <<>>
    /\ evaluated = <<>>
    /\ earlier = FALSE

\* no value returned yet
NoResult == [value |-> 0, ok |-> FALSE, ub |-> FALSE]

InitEval ==
    /\ expr \in Exprs
    /\ epc = "start"
    /\ tokenizer = NewTokenizer
    /\ queue = <<>>
    /\ operands = <<>>
    /\ ret = NoResult
    /\ underflow = FALSE
    /\ tokenized = NewTokenizer
    /\ postfix = <<>>
    /\ NoParse
    /\ NoMacro

\* tokenizer.Tokenize(expr) and the test that follows it
EvalTokenize ==
    /\ epc = "start"
    /\ tokenizer' = Tokenize(expr)
    /\ IF tokenizer'.failed \/ Len(tokenizer'.tokens) = 0
       THEN epc' = "returned" /\ ret' = Failure
       ELSE epc' = "tokenized" /\ ret' = ret
    /\ tokenized' = tokenizer'
    /\ UNCHANGED <<expr, queue, operands, underflow, postfix>>
    /\ UNCHANGED parseVars
    /\ UNCHANGED macroVars

\* queue = tokenizer.ShuntingYard() and the test that follows it
EvalShuntingYard ==
    /\ epc = "tokenized"
    /\ LET sy == ShuntingYard(tokenizer.tokens)
       IN  /\ tokenizer' = [tokens |-> sy.tokens, failed |-> sy.failed]
           /\ queue' = sy.queue
           /\ IF sy.failed
              THEN epc' = "returned" /\ ret' = Failure
              ELSE epc' = "evaluating" /\ ret' = ret
    /\ postfix' = queue'
    /\ UNCHANGED <<expr, operands, underflow, tokenized>>
    /\ UNCHANGED parseVars
    /\ UNCHANGED macroVars

\* one round of the loop over the postfix queue
EvalStep ==
    /\ epc = "evaluating"
    /\ queue # <<>>
    /\ LET t == Head(queue)
           r == EvaluateToken(operands, t)
       IN  /\ queue' = Tail(queue)
           /\ operands' = r.operands
           /\ underflow' = (underflow \/ (t.type = "OPERATOR" /\ Len(operands) < 2))
           /\ CASE r.status = "fail" -> epc' = "returned" /\ ret' = Failure
                [] r.status = "ub"   -> epc' = "returned" /\ ret' = Undefined
                [] OTHER             -> epc' = epc /\ ret' = ret
    /\ UNCHANGED <<expr, tokenizer, tokenized, postfix>>
    /\ UNCHANGED parseVars
    /\ UNCHANGED macroVars

\* the queue is empty: the test of the number of operands and the return
EvalFinish ==
    /\ epc = "evaluating"
    /\ queue = <<>>
    /\ ret' = FinalResult(operands)
    /\ epc' = "returned"
    /\ UNCHANGED <<expr, tokenizer, queue, operands, underflow, tokenized, postfix>>
    /\ UNCHANGED parseVars
    /\ UNCHANGED macroVars

NextEval == EvalTokenize \/ EvalShuntingYard \/ EvalStep \/ EvalFinish

SpecEval == InitEval /\ [][NextEval]_vars

(***************************************************************************)
(* SimplePreprocessor::Parse as a state machine: the call, one step for    *)
(* each round of the loop over the lines, and the return.  Every line of   *)
(* the input ends with a newline.                                          *)
(***************************************************************************)
\* longest input, in lines
MaxLines == 4

\* the variables of EvaluateExpression while Parse is looked at
NoEvaluation ==
    /\ expr = <<>>
    /\ epc = "none"
    /\ tokenizer = NewTokenizer
    /\ queue = <<>>
    /\ operands = <<>>
    /\ ret = NoResult
    /\ underflow = FALSE
    /\ tokenized = NewTokenizer
    /\ postfix = <<>>

Init ==
    /\ global_defines = Defines
    /\ pc = "call"
    /\ internal = NewParserInternal
    /\ result = <<>>
    /\ returned = <<>>
    /\ input = <<>>
    /\ emitted = <<>>
    /\ chain = <<>>
    /\ evaluated = <<>>
    /\ earlier = FALSE
    /\ NoEvaluation
    /\ NoMacro

\* if (buflen == 0) return {};
ParseEmptyBuffer ==
    /\ pc = "call"
    /\ pc' = "returned"
    /\ returned' = <<>>
    /\ UNCHANGED <<global_defines, internal, result, input, emitted, chain, evaluated, earlier>>
    /\ UNCHANGED evalVars
    /\ UNCHANGED macroVars

\* internal kept from one call to the next, as a member of the preprocessor would be
LocalInternalKept(stale, defs) == [stale EXCEPT !.defines = CopyDefines(defs)]

\* ParserInternal internal; and the loop that fills its defines.  internal is a
\* local of Parse: what an earlier call left where it lived (stale) is not read.
LocalInternal(stale, defs) == [NewParserInternal EXCEPT !.defines = CopyDefines(defs)]

\* a buffer that is not empty: internal and its copy of the macros, result, input_view
ParseBegin ==
    /\ pc = "call"
    /\ pc' = "loop"
    /\ internal' = LocalInternal(internal, global_defines)
    /\ result' = <<>>
    /\ UNCHANGED <<global_defines, returned, input, emitted, chain, evaluated, earlier>>
    /\ UNCHANGED evalVars
    /\ UNCHANGED macroVars

\* if (internal.failed) return {};
ParseFailed ==
    /\ pc = "loop"
    /\ internal.failed
    /\ pc' = "returned"
    /\ returned' = <<>>
    /\ UNCHANGED <<global_defines, internal, result, input, emitted, chain, evaluated, earlier>>
    /\ UNCHANGED evalVars
    /\ UNCHANGED macroVars

\* a branch of the conditional opened on an empty stack, as the history keeps it
Branch(cond, value) == [cond |-> cond, value |-> value, lines |-> 0, emits |-> 0]

\* the value of the expression of the row of an if or an elif
BranchValue(parser, row_final) ==
    TokenizeAndEvaluate(parser, DirectiveOf(row_final).expr).value

\* Evaluates with the expression of an elif evaluated before the two tests of its case
EvaluatesBeforeTests(parser, row_final) ==
    LET d == DirectiveOf(row_final)
    IN  FirstCharacter(row_final) = Prefix /\ ~d.no_value /\ d.eval \in {COND_IF, COND_ELIF}

\* the row reaches a call of TokenizeAndEvaluate: an if with a value (lines 170-174
\* and 109), or an elif with a value past the two tests of its case (lines 177-181 and 114-117)
Evaluates(parser, row_final) ==
    LET d == DirectiveOf(row_final)
    IN  /\ FirstCharacter(row_final) = Prefix
        /\ ~d.no_value
        /\ \/ d.eval = COND_IF
           \/ d.eval = COND_ELIF /\ TopOrDefault(parser.condition).cond # COND_ELSE /\ parser.condition # <<>>

\* the calls of TokenizeAndEvaluate made on a row: none, or one with its outcome
Evaluations(parser, row_final) ==
    IF Evaluates(parser, row_final)
    THEN <<[line |-> parser.current_line + 1, ok |-> EvaluateExpression(SkipBlanks(DirectiveOf(row_final).expr)).ok]>>
    ELSE <<>>

\* the history of the branches after a row: `before` is the stack the row
\* was read under, `value` the value of its expression
ChainAfter(before, r, emits, value) ==
    LET directive == FirstCharacter(r.row_final) = Prefix
        d         == DirectiveOf(r.row_final)
    IN  IF r.internal.failed THEN chain
        ELSE IF directive /\ ~d.no_value /\ d.eval = COND_IF /\ before = <<>>
        THEN <<Branch(COND_IF, value)>>
        ELSE IF directive /\ ~d.no_value /\ d.eval = COND_ELIF /\ Len(before) = 1
        THEN Append(chain, Branch(COND_ELIF, value))
        ELSE IF directive /\ ~d.no_value /\ d.eval = COND_ELSE /\ Len(before) = 1
        THEN Append(chain, Branch(COND_ELSE, FALSE))
        ELSE IF r.append /\ Len(before) = 1
        THEN [chain EXCEPT ![Len(chain)].lines = @ + 1, ![Len(chain)].emits = @ + (IF emits THEN 1 ELSE 0)]
        ELSE chain

\* One round of the loop, lines 319-356, on a line that `more` lines follow or none.
\* With index 2^32 - 1 the vector is resized to 0 elements and result[2^32 - 1]
\* refers to no element: the call is aborted, or goes on and an append through
\* that reference changes no buffer.
ParseLine ==
    /\ pc = "loop"
    /\ ~internal.failed
    /\ \E line \in LineSet :
        \E r \in {ParseRow(internal, line, <<>>)} :
        \E emits \in {Emits(r.internal, r.append)}, value \in {BranchValue(internal, r.row_final)}, calls \in {Evaluations(internal, r.row_final)} :
        \E more \in BOOLEAN, fault \in BOOLEAN :
           LET idx     == r.internal.current_output_idx
               resized == IF IndexBeyond(idx, result) THEN Resize(result, IndexPlusOne(idx)) ELSE result
               output  == r.row_final \o <<"\n">>
           IN  /\ more => internal.current_line + 1 < MaxLines
               /\ fault => idx < 0
               /\ idx < -1 => fault
               /\ internal' = r.internal
               /\ input' = Append(input, line)
               /\ emitted' = IF emits THEN Append(emitted, [row |-> r.row_final, idx |-> idx, levels |-> r.internal.condition]) ELSE emitted
               /\ chain' = ChainAfter(internal.condition, r, emits, value)
               /\ evaluated' = evaluated \o calls
               /\ result' = IF idx < -1 THEN result
                            ELSE IF emits /\ idx >= 0 THEN [resized EXCEPT ![idx + 1] = @ \o output]
                            ELSE resized
               /\ pc' = IF fault THEN "crashed" ELSE IF more THEN "loop" ELSE "end"
    /\ UNCHANGED <<global_defines, returned, earlier>>
    /\ UNCHANGED evalVars
    /\ UNCHANGED macroVars

\* the loop has ended: the test of the conditional stack and the return
ParseEnd ==
    /\ pc = "end"
    /\ pc' = "returned"
    /\ returned' = ParseReturn(internal, result)
    /\ UNCHANGED <<global_defines, internal, result, input, emitted, chain, evaluated, earlier>>
    /\ UNCHANGED evalVars
    /\ UNCHANGED macroVars

\* Parse is called again on the same preprocessor.  The locals of the call that
\* returned are gone; what they held stays in the state until the next call
\* constructs its own.
ParseAgain ==
    /\ pc = "returned"
    /\ pc' = "call"
    /\ earlier' = (earlier \/ internal.failed \/ internal.condition # <<>> \/ internal.current_output_idx # 0)
    /\ returned' = <<>>
    /\ input' = <<>>
    /\ emitted' = <<>>
    /\ chain' = <<>>
    /\ evaluated' = <<>>
    /\ UNCHANGED <<global_defines, internal, result>>
    /\ UNCHANGED evalVars
    /\ UNCHANGED macroVars

Next == ParseEmptyBuffer \/ ParseBegin \/ ParseFailed \/ ParseLine \/ ParseEnd \/ ParseAgain

Spec == Init /\ [][Next]_vars

(***************************************************************************)
(* The macro pass on its own: FindAndReplaceMacro on one line and one      *)
(* macro table, then the choice of row_final.                              *)
(***************************************************************************)
InitMacro ==
    /\ mdefs \in MacroTables
    /\ mline \in MacroLines
    /\ mpc = "start"
    /\ mpass = NoPass
    /\ mrow = <<>>
    /\ NoEvaluation
    /\ NoParse

\* bool found = internal.FindAndReplaceMacro(tmp_buf, {input_view.data(), next_pos + 1});
MacroPass ==
    /\ mpc = "start"
    /\ mpass' = FindAndReplaceMacro(CopyDefines(mdefs), mline \o <<"\n">>)
    /\ mpc' = "passed"
    /\ UNCHANGED <<mdefs, mline, mrow>>
    /\ UNCHANGED <<evalVars, parseVars>>

\* std::string_view row_final(...); if (found) row_final = {tmp_buf.data(), tmp_buf.length() - 1};
MacroRow ==
    /\ mpc = "passed"
    /\ mrow' = RowFinal(CopyDefines(mdefs), mline, <<>>).row_final
    /\ mpc' = "row"
    /\ UNCHANGED <<mdefs, mline, mpass>>
    /\ UNCHANGED <<evalVars, parseVars>>

NextMacro == MacroPass \/ MacroRow

SpecMacro == InitMacro /\ [][NextMacro]_vars

(***************************************************************************)
(* Claims about SimplePreprocessor::Parse, checked under Spec.             *)
(***************************************************************************)
\* the text of a line
Line_a == <<"a">>

Line_if_1 == <<"#", "i", "f", " ", "1">>

Line_elif_X == <<"#", "e", "l", "i", "f", " ", "X">>

\* a buffer that holds the line a and nothing else
Buffer_a == <<"a", "\n">>

\* C1: whenever a line of the input has raised a failure, Parse returns an
\* empty sequence of buffers, wherever the failing line is, the last line
\* of the input included.
C1_FailureReturnsEmpty ==
    (pc = "returned" /\ internal.failed) => returned = <<>>

\* C2: a line is appended to the output only under a stack of conditionals
\* every level of which is emitting: no line is appended while the branch of
\* some enclosing level is not emitting.
C2_EnclosingLevelsEmit ==
    \A i \in DOMAIN emitted :
        \A k \in DOMAIN emitted[i].levels : emitted[i].levels[k].result

\* the branch that a chain selects: the first whose expression is non-zero,
\* or the else branch when no expression before it is
Selected(branches, i) ==
    /\ \A j \in 1..(i - 1) : ~branches[j].value
    /\ branches[i].cond = COND_ELSE \/ branches[i].value

\* C3: in a chain if / elif ... / else opened on an empty stack, whose
\* expressions all evaluate, every line directly under the selected branch
\* (the first whose expression is non-zero, else the else branch) is
\* emitted, no line directly under any other branch is, and never do two
\* branches of the chain emit.
C3_OneBranchEmits ==
    /\ \A i \in DOMAIN chain :
        chain[i].emits = (IF Selected(chain, i) THEN chain[i].lines ELSE 0)
    /\ Cardinality({i \in DOMAIN chain : chain[i].emits > 0}) <= 1

\* an if and an elif that are both non-zero, a line under each: the first is emitted only
C3_Witness ==
    /\ input = <<Line_if_1, Line_a, Line_elif_X, Line_a>>
    /\ Len(chain) = 2
    /\ chain[1].value /\ chain[1].lines = 1 /\ chain[1].emits = 1
    /\ chain[2].value /\ chain[2].lines = 1 /\ chain[2].emits = 0
    /\ result = <<Buffer_a>>

\* C4: when the input ends with the conditional stack not empty, Parse
\* returns an empty result, whatever was emitted before.
C4_UnterminatedReturnsEmpty ==
    (pc = "returned" /\ internal.condition # <<>>) => returned = <<>>

\* a line emitted, then an if that nothing closes, and no failure
C4_Witness ==
    /\ pc = "returned"
    /\ input = <<Line_a, Line_if_1>>
    /\ ~internal.failed
    /\ internal.condition # <<>>
    /\ result = <<Buffer_a>>
    /\ returned = <<>>

RECURSIVE BufferOf(_, _)
\* the rows of the history appended under index idx, each with its newline, in their order
BufferOf(log, idx) ==
    IF log = <<>> THEN <<>>
    ELSE (IF Head(log).idx = idx THEN Head(log).row \o <<"\n">> ELSE <<>>) \o BufferOf(Tail(log), idx)

\* C5: after a successful parse every emitted line is in the returned buffer
\* whose index the latest output directive before it selected (0 when there
\* is none), followed by a newline, in no other buffer, and the lines of a
\* buffer are in the order of the input.
C5_LinesInSelectedBuffer ==
    (pc = "returned" /\ input # <<>> /\ ~internal.failed /\ internal.condition = <<>>) =>
        /\ \A i \in DOMAIN emitted : emitted[i].idx >= 0 /\ emitted[i].idx < Len(returned)
        /\ \A b \in DOMAIN returned : returned[b] = BufferOf(emitted, b - 1)

\* a line that starts with the prefix and whose keyword ParseDirective does not know
IsUnknownDirective(line) ==
    FirstCharacter(line) = Prefix /\ DirectiveOf(line).eval = DIRECTIVE_UNKNOWN

\* C11: in the build the source gives, with nothing configured by its user,
\* an unknown directive is fatal: once a line with an unknown keyword has
\* been read the failure flag is set and Parse returns no buffer.
C11_UnknownDirectiveFatal ==
    (pc = "returned" /\ \E i \in DOMAIN input : IsUnknownDirective(input[i])) =>
        internal.failed /\ returned = <<>>

\* a non-negative decimal integer: digits and nothing else
IsDecimal(text) == text # <<>> /\ \A i \in DOMAIN text : text[i] \in Digits

\* an output directive whose value is not a non-negative decimal integer
IsBadOutput(row) ==
    /\ FirstCharacter(row) = Prefix
    /\ DirectiveOf(row).eval = DIRECTIVE_OUTPUT
    /\ ~IsDecimal(SkipBlanks(DirectiveOf(row).expr))

\* the line a step of the loop has read, after the macro pass
RowRead == RowFinal(internal.defines, Last(input'), <<>>).row_final

\* C12: a round of the loop that reads an output directive whose value is
\* not a non-negative decimal integer (-1, x, 1x, nothing) sets the failure
\* flag and leaves the current output index and every existing buffer as
\* they were.
C12_BadIndexFails ==
    [][(pc = "loop" /\ input' # input /\ IsBadOutput(RowRead)) =>
          /\ internal'.failed
          /\ internal'.current_output_idx = internal.current_output_idx
          /\ \A b \in DOMAIN result : b \in DOMAIN result' /\ result'[b] = result[b]]_vars

\* the buffers after a round of the loop that ran to its end, lines 341-351
Appended(buffers, r, emits) ==
    LET idx     == r.internal.current_output_idx
        resized == IF IndexBeyond(idx, buffers) THEN Resize(buffers, IndexPlusOne(idx)) ELSE buffers
    IN  IF emits /\ idx >= 0 THEN [resized EXCEPT ![idx + 1] = @ \o r.row_final \o <<"\n">>] ELSE resized

\* internal and result after a round on `line`
Round(before, r) == [internal |-> r.internal, result |-> Appended(before.result, r, Emits(r.internal, r.append))]

\* a round of the loop on `line`, as the one element of a set
RoundOn(before, line) ==
    UNION {{Round(b, r) : r \in {ParseRow(b.internal, line, <<>>)}} : b \in before}

RECURSIVE Parsed(_, _, _)
\* internal and result of a call that started from nothing but the macro
\* definitions `defs` and has read the first n of `lines`
Parsed(defs, lines, n) ==
    IF n = 0 THEN [internal |-> [NewParserInternal EXCEPT !.defines = CopyDefines(defs)], result |-> <<>>]
    ELSE CHOOSE after \in RoundOn({Parsed(defs, lines, n - 1)}, lines[n]) : TRUE

\* the vector returned from the end of the loop, or the empty one from its top after a failure
ReturnsOf(p) == {ParseReturn(p.internal, p.result)} \cup (IF p.internal.failed THEN {<<>>} ELSE {})

\* C15: what a call of Parse holds and returns is a function of its input
\* text and the macro definitions alone, whatever an earlier call on the
\* same preprocessor left (a failure, open conditionals, another output
\* index, buffers), and the macro table of the preprocessor stays as it was.
C15_CallsIndependent ==
    /\ global_defines = Defines
    /\ (pc = "loop" /\ input = <<>>) => [internal |-> internal, result |-> result] = Parsed(Defines, input, 0)
    /\ (pc = "returned" /\ input = <<>>) => returned = <<>>
    /\ (pc = "returned" /\ input # <<>>) =>
          \E p \in {Parsed(Defines, input, Len(input))} :
              internal = p.internal /\ result = p.result /\ returned \in ReturnsOf(p)

\* a call that follows a failed, unterminated or redirected call has
\* returned the buffer of its one line
C15_Witness ==
    /\ earlier
    /\ pc = "returned"
    /\ input = <<Line_a>>
    /\ returned = <<Buffer_a>>

Line_else == <<"#", "e", "l", "s", "e">>

Line_elif_0 == <<"#", "e", "l", "i", "f", " ", "0">>

Line_endif == <<"#", "e", "n", "d", "i", "f">>

\* the row is an elif or an else read on an empty stack or after the else of
\* the top level, or an endif read on an empty stack
Misplaced(condition, row) ==
    /\ FirstCharacter(row) = Prefix
    /\ ~DirectiveOf(row).no_value
    /\ \/ /\ DirectiveOf(row).eval \in {COND_ELIF, COND_ELSE}
          /\ (condition = <<>> \/ Last(condition).cond = COND_ELSE)
       \/ DirectiveOf(row).eval = COND_ENDIF /\ condition = <<>>

\* C21: an elif or an else read when the conditional stack is empty or the
\* last directive of the top level is an else, and an endif read when the
\* stack is empty, set the failure flag and leave the stack as it was, in
\* depth and in every field of every level; the expression of such an elif
\* is not evaluated.
C21_MisplacedDirective ==
    [][(pc = "loop" /\ input' # input /\ Misplaced(internal.condition, RowRead)) =>
          /\ internal'.failed
          /\ internal'.condition = internal.condition
          /\ evaluated' = evaluated]_vars

\* an elif read after the else of its level: the flag is set, the level is
\* as the else left it, and only the if was evaluated
C21_Witness ==
    /\ input = <<Line_if_1, Line_else, Line_elif_0>>
    /\ internal.failed
    /\ internal.condition = <<ConditionalBranch(FALSE, TRUE, TRUE, COND_ELSE)>>
    /\ evaluated = <<[line |-> 1, ok |-> TRUE]>>

Line_elif_paren == <<"#", "e", "l", "i", "f", " ", "(">>

\* C22: when the expression of an if or an elif fails to evaluate, Parse
\* returns the empty vector, wherever the directive is: inside a region
\* that does not emit, on a level that has consumed a branch, or on the
\* last line of the input.
C22_EvaluationFailureReturnsEmpty ==
    (pc = "returned" /\ \E i \in DOMAIN evaluated : ~evaluated[i].ok) => returned = <<>>

\* the elif of a level that has consumed its branch fails to evaluate on the
\* last line of the input: the buffer written before it is not returned
C22_Witness ==
    /\ pc = "returned"
    /\ input = <<Line_a, Line_if_1, Line_elif_paren>>
    /\ evaluated = <<[line |-> 2, ok |-> TRUE], [line |-> 3, ok |-> FALSE]>>
    /\ result = <<Buffer_a>>
    /\ returned = <<>>

Line_if_0 == <<"#", "i", "f", " ", "0">>

\* the results of all levels beneath level k of the stack hold now
AllBeneath(condition, k) == \A j \in 1..(k - 1) : condition[j].result

\* the levels both stacks have keep their in_true_loop
SameInTrueLoop(before, after) ==
    \A k \in DOMAIN before \cap DOMAIN after : after[k].in_true_loop = before[k].in_true_loop

\* C23: in every state of a parse the in_true_loop of each level of the
\* conditional stack is the conjunction of the current result of all levels
\* beneath it (true for the bottom level), and the in_true_loop of a level
\* does not change from the if that pushes it to the endif that pops it.
C23_InTrueLoop ==
    /\ [](\A k \in DOMAIN internal.condition :
              internal.condition[k].in_true_loop = AllBeneath(internal.condition, k))
    /\ [][pc = "loop" => SameInTrueLoop(internal.condition, internal'.condition)]_vars

\* the else of the second level takes its result away, and the third level,
\* whose own expression holds, is pushed with in_true_loop false
C23_Witness ==
    /\ input = <<Line_if_1, Line_if_1, Line_else, Line_if_1>>
    /\ Len(internal.condition) = 3
    /\ ~internal.condition[2].result
    /\ internal.condition[2].in_true_loop
    /\ internal.condition[3].result
    /\ ~internal.condition[3].in_true_loop

\* the row is an if directive that reaches ParseExpression
IsIf(row) ==
    FirstCharacter(row) = Prefix /\ DirectiveOf(row).eval = COND_IF /\ ~DirectiveOf(row).no_value

\* the row is an endif directive
IsEndif(row) == FirstCharacter(row) = Prefix /\ DirectiveOf(row).eval = COND_ENDIF

\* what the row adds to a stack of the given depth
DepthChange(row, depth) ==
    IF IsIf(row) THEN 1 ELSE IF IsEndif(row) /\ depth > 0 THEN -1 ELSE 0

\* the if directives among the first n lines, less the endif directives read with an open level
RECURSIVE OpenAfter(_, _, _)
OpenAfter(defs, lines, n) ==
    IF n = 0 THEN 0
    ELSE LET depth == OpenAfter(defs, lines, n - 1)
         IN  depth + DepthChange(RowFinal(defs, lines[n], <<>>).row_final, depth)

\* C24: after any sequence of lines the depth of the conditional stack is
\* the number of if directives that reached evaluation less the number of
\* endif directives read with a stack that was not empty; only if pushes
\* and only endif pops, and no other line changes the depth.
C24_StackDepth ==
    /\ []((pc \in {"loop", "end", "crashed"} \/ (pc = "returned" /\ input # <<>>)) =>
              Len(internal.condition) = OpenAfter(internal.defines, input, Len(input)))
    /\ [][(pc = "loop" /\ input' # input) =>
              Len(internal'.condition) = Len(internal.condition) + DepthChange(RowRead, Len(internal.condition))]_vars

\* two if directives, an else and one endif: one level is open
C24_Witness ==
    /\ input = <<Line_if_0, Line_if_1, Line_else, Line_endif>>
    /\ Len(internal.condition) = 1
    /\ ~internal.failed

RECURSIVE RefValueOf(_)
\* the number a decimal text stands for
RefValueOf(text) == IF text = <<>> THEN 0 ELSE 10 * RefValueOf(Front(text)) + DigitVal[Last(text)]

\* the rows of the lines read, after the macro pass
RowsOf(defs, lines) == [i \in DOMAIN lines |-> RowFinal(defs, lines[i], <<>>).row_final]

\* the indexes the output directives among the rows select
RefSelectedIndexes(rows) ==
    {RefValueOf(SkipBlanks(DirectiveOf(rows[i]).expr)) :
        i \in {k \in DOMAIN rows : /\ FirstCharacter(rows[k]) = Prefix
                                   /\ DirectiveOf(rows[k]).eval = DIRECTIVE_OUTPUT
                                   /\ ~DirectiveOf(rows[k]).no_value
                                   /\ IsDecimal(SkipBlanks(DirectiveOf(rows[k]).expr))}}

\* the largest index selected, 0 when no directive selects one
RefLargestIndex(rows) ==
    CHOOSE n \in RefSelectedIndexes(rows) \cup {0} : \A m \in RefSelectedIndexes(rows) \cup {0} : m <= n

Line_output_1 == <<"#", "o", "u", "t", "p", "u", "t", " ", "1">>

\* C26: a successful parse of an input that is not empty returns 1 + the
\* largest index an output directive selected buffers (1 without such a
\* directive), whether or not a line was emitted under that index; a buffer
\* no line was emitted into is there and empty, and no buffer loses lines
\* when a smaller index is selected later.
C26_BufferCount ==
    (pc = "returned" /\ input # <<>> /\ ~internal.failed /\ internal.condition = <<>>) =>
        /\ Len(returned) = 1 + RefLargestIndex(RowsOf(internal.defines, input))
        /\ \A b \in 1..(1 + RefLargestIndex(RowsOf(internal.defines, input))) :
               b \in DOMAIN returned /\ returned[b] = BufferOf(emitted, b - 1)

\* the same for the inputs none of whose output directives has a value that
\* is not a non-negative decimal integer
BufferCountOfDecimalIndexes ==
    (/\ pc = "returned" /\ input # <<>> /\ ~internal.failed /\ internal.condition = <<>>
     /\ \A i \in DOMAIN input : ~IsBadOutput(RowsOf(internal.defines, input)[i])) =>
        /\ Len(returned) = 1 + RefLargestIndex(RowsOf(internal.defines, input))
        /\ \A b \in DOMAIN returned : returned[b] = BufferOf(emitted, b - 1)

\* the row is an output directive with its value
IsOutput(row) ==
    FirstCharacter(row) = Prefix /\ DirectiveOf(row).eval = DIRECTIVE_OUTPUT /\ ~DirectiveOf(row).no_value

RECURSIVE RefLatestIndex(_)
\* the index the last output directive among the rows names, 0 without one
RefLatestIndex(rows) ==
    IF rows = <<>> THEN 0
    ELSE IF IsOutput(Last(rows)) THEN RefValueOf(SkipBlanks(DirectiveOf(Last(rows)).expr))
    ELSE RefLatestIndex(Front(rows))

\* C27: directives are interpreted whether or not the enclosing branch
\* emits.  A round of the loop that reads an output directive with an index
\* makes it the current output index, also where the top of the stack does
\* not emit, and every line emitted goes under the index of the latest
\* output directive read before it, wherever that directive was.
C27_OutputInsideDeadBranch ==
    [][(/\ pc = "loop" /\ input' # input
        /\ \A i \in DOMAIN input' : ~IsBadOutput(RowsOf(internal.defines, input')[i])) =>
          /\ IsOutput(RowRead) => internal'.current_output_idx = RefLatestIndex(<<RowRead>>)
          /\ emitted' # emitted => Last(emitted').idx = RefLatestIndex(RowsOf(internal.defines, input'))]_vars

\* output 1 lies under if 0: the line behind the endif is in buffer 1
C27_Witness ==
    /\ pc = "returned"
    /\ input = <<Line_if_0, Line_output_1, Line_endif, Line_a>>
    /\ emitted = <<[row |-> Line_a, idx |-> 1, levels |-> <<>>]>>
    /\ returned = <<<<>>, Buffer_a>>

(***************************************************************************)
(* Claims about the macro pass.  The substitution the claims describe is   *)
(* written out on its own: the line is cut into maximal runs of word       *)
(* characters and the characters between them.                             *)
(***************************************************************************)
\* [A-Za-z0-9_], as far as the characters of the model go
RefWordCharacters ==
    Digits \cup {"_", "A", "B", "X", "Y", "Z", "a", "b", "d", "e", "f", "i", "l", "n", "o", "p", "s", "t", "u", "x", "z"}

\* the decimal text of the integers the macro tables hold
RefDecimal ==
    (-12 :> <<"-", "1", "2">>) @@ (0 :> <<"0">>) @@ (1 :> <<"1">>) @@ (10 :> <<"1", "0">>)

\* the text a macro stands for
RefShown(value) == IF value.holds = "int" THEN RefDecimal[value.int] ELSE value.string

\* name -> text, for a table without repeated names
RefTable(defs) ==
    [k \in {defs[i].key : i \in DOMAIN defs} |-> RefShown(defs[CHOOSE i \in DOMAIN defs : defs[i].key = k].value)]

RECURSIVE RefRunEnd(_, _)
\* the position behind the maximal run of word characters that starts at i
RefRunEnd(text, i) ==
    IF i <= Len(text) /\ text[i] \in RefWordCharacters THEN RefRunEnd(text, i + 1) ELSE i

RECURSIVE RefSubstitute(_, _, _)
\* text from position i on, every maximal run that is a name replaced by its text
RefSubstitute(names, text, i) ==
    IF i > Len(text) THEN <<>>
    ELSE IF text[i] \notin RefWordCharacters THEN <<text[i]>> \o RefSubstitute(names, text, i + 1)
    ELSE LET e    == RefRunEnd(text, i)
             word == SubSeq(text, i, e - 1)
         IN  (IF word \in DOMAIN names THEN names[word] ELSE word) \o RefSubstitute(names, text, e)

\* the maximal runs of word characters of a text
RefWords(text) ==
    {SubSeq(text, i, RefRunEnd(text, i) - 1) :
        i \in {j \in DOMAIN text : text[j] \in RefWordCharacters /\ (j = 1 \/ text[j - 1] \notin RefWordCharacters)}}

\* the line the pass leaves: tmp_buf when it reports a substitution, the line itself otherwise
Substituted == IF mpass.found THEN mpass.tmp_buf ELSE mline \o <<"\n">>

\* C13: for every line that ends with a newline and every macro table, the
\* macro pass yields the line with each maximal run of word characters that
\* is a macro name replaced by the macro's value (an integer in decimal, a
\* string as it is), every other character kept in its order, and the
\* values put in are not scanned again.
C13_MacroSubstitution ==
    mpc \in {"passed", "row"} => Substituted = RefSubstitute(RefTable(mdefs), mline \o <<"\n">>, 1)

\* the pass has run on "X Y_" with X defined as "Y" and Y as "X": X is
\* replaced by Y, that Y is not replaced again, and Y_ is another word
C13_Witness ==
    /\ mpc = "passed"
    /\ mline = <<"X", " ", "Y", "_">>
    /\ RefTable(mdefs) = (<<"X">> :> <<"Y">>) @@ (<<"Y">> :> <<"X">>)
    /\ mpass = [found |-> TRUE, tmp_buf |-> <<"Y", " ", "Y", "_", "\n">>]

\* C14: on a line in which no word is a macro name the macro pass reports
\* no substitution, and the line that directive detection and the output
\* use is the line as it was.
C14_NoMatchUnchanged ==
    (mpc = "row" /\ RefWords(mline) \cap DOMAIN RefTable(mdefs) = {}) =>
        ~mpass.found /\ mrow = mline

\* row_final chosen for "X1 a" with X and Y defined: neither word is a name
C14_Witness ==
    /\ mpc = "row"
    /\ mline = <<"X", "1", " ", "a">>
    /\ mdefs = Defines
    /\ ~mpass.found
    /\ mrow = mline

\* the steps of a call return what EvaluateExpression, as a function, returns
StepsAgree == epc = "returned" => ret = EvaluateExpression(expr)

(***************************************************************************)
(* The reference the claims compare EvaluateExpression with: a lexer with  *)
(* the longest match and a recursive-descent evaluation by precedence      *)
(* level, with the table of GetOperatorPrecedence and the C++ meaning of   *)
(* each operator.  It is no part of the program.                           *)
(***************************************************************************)
RefNum(n) == [kind |-> "num", text |-> "", value |-> n]

RefSym(text) == [kind |-> "sym", text |-> text, value |-> 0]

\* the operator or parenthesis that starts at position i, "" when there is none
RefSymbolAt(text, i) ==
    LET c1 == text[i]
        c2 == IF i < Len(text) THEN text[i + 1] ELSE ""
    IN  CASE c1 = "<" /\ c2 = "<" -> "<<"
          [] c1 = ">" /\ c2 = ">" -> ">>"
          [] c1 = "<" /\ c2 = "=" -> "<="
          [] c1 = ">" /\ c2 = "=" -> ">="
          [] c1 = "=" /\ c2 = "=" -> "=="
          [] c1 = "!" /\ c2 = "=" -> "!="
          [] c1 = "&" /\ c2 = "&" -> "&&"
          [] c1 = "|" /\ c2 = "|" -> "||"
          [] c1 \in {"*", "/", "%", "+", "-", "<", ">", "|", "^", "&", "(", ")"} -> c1
          [] OTHER -> ""

RECURSIVE RefLex(_, _, _)
\* the tokens of text from position i on, appended to acc; "error" in kind on failure
RefLex(text, i, acc) ==
    IF i > Len(text) THEN acc
    ELSE IF text[i] = " " THEN RefLex(text, i + 1, acc)
    ELSE IF text[i] \in Digits
    THEN LET r == ReadDigits(text, i, 0)
         IN  RefLex(text, r.i, Append(acc, RefNum(r.value)))
    ELSE LET sym == RefSymbolAt(text, i)
         IN  IF sym = "" THEN <<[kind |-> "error", text |-> "", value |-> 0]>>
             ELSE RefLex(text, i + (IF sym \in {"<<", ">>", "<=", ">=", "==", "!=", "&&", "||"} THEN 2 ELSE 1), Append(acc, RefSym(sym)))

\* a OP b as C++ defines it
RefApply(op, a, b) ==
    CASE op = "*"  -> a * b
      [] op = "/"  -> CDiv(a, b)
      [] op = "%"  -> CRem(a, b)
      [] op = "+"  -> a + b
      [] op = "-"  -> a - b
      [] op = "<<" -> ShiftLeft(a, b)
      [] op = ">>" -> ShiftRight(a, b)
      [] op = "<"  -> BoolInt(a < b)
      [] op = "<=" -> BoolInt(a <= b)
      [] op = ">"  -> BoolInt(a > b)
      [] op = ">=" -> BoolInt(a >= b)
      [] op = "==" -> BoolInt(a = b)
      [] op = "!=" -> BoolInt(a # b)
      [] op = "&"  -> Bitwise("and", a, b)
      [] op = "^"  -> Bitwise("xor", a, b)
      [] op = "|"  -> Bitwise("or", a, b)
      [] op = "&&" -> BoolInt(a # 0 /\ b # 0)
      [] OTHER     -> BoolInt(a # 0 \/ b # 0)

\* a parse result: syntax error or not, a division by zero or an undefined
\* operation met or not, the value, the position after the part parsed
RefBad == [ok |-> FALSE, divzero |-> FALSE, undefined |-> FALSE, value |-> 0, pos |-> 0]

RefCombine(op, l, r) ==
    LET dz == l.divzero \/ r.divzero \/ (op \in {"/", "%"} /\ r.value = 0)
        ub == l.undefined \/ r.undefined \/ (~dz /\ IsUndefined(op, l.value, r.value))
    IN  [ok |-> TRUE, divzero |-> dz, undefined |-> ub, value |-> IF dz \/ ub THEN 0 ELSE RefApply(op, l.value, r.value), pos |-> r.pos]

RECURSIVE RefLevel(_, _, _)
RECURSIVE RefChain(_, _, _)
RECURSIVE RefPrimary(_, _)

\* a literal or a parenthesized expression
RefPrimary(toks, pos) ==
    IF pos > Len(toks) THEN RefBad
    ELSE IF toks[pos].kind = "num"
    THEN [ok |-> TRUE, divzero |-> FALSE, undefined |-> FALSE, value |-> toks[pos].value, pos |-> pos + 1]
    ELSE IF toks[pos].text = "("
    THEN LET r == RefLevel(toks, pos + 1, PRECEDENCE_LOGICAL_OR)
         IN  IF r.ok /\ r.pos <= Len(toks) /\ toks[r.pos].text = ")"
             THEN [r EXCEPT !.pos = r.pos + 1]
             ELSE RefBad
    ELSE RefBad

\* an expression of the operators of the levels up to lvl
RefLevel(toks, pos, lvl) ==
    IF lvl = PRECEDENCE_NONE THEN RefPrimary(toks, pos)
    ELSE LET l == RefLevel(toks, pos, lvl - 1)
         IN  IF l.ok THEN RefChain(toks, l, lvl) ELSE RefBad

\* the operators of level lvl that follow acc, from left to right
RefChain(toks, acc, lvl) ==
    IF acc.pos <= Len(toks) /\ toks[acc.pos].kind = "sym" /\ toks[acc.pos].text \notin {"(", ")"} /\ GetOperatorPrecedence(toks[acc.pos].text) = lvl
    THEN LET r == RefLevel(toks, acc.pos + 1, lvl - 1)
         IN  IF r.ok THEN RefChain(toks, RefCombine(toks[acc.pos].text, acc, r), lvl) ELSE RefBad
    ELSE acc

\* [ok, divzero, undefined, value] of a whole expression
Reference(text) ==
    LET toks == RefLex(text, 1, <<>>)
        r    == RefLevel(toks, 1, PRECEDENCE_LOGICAL_OR)
    IN  IF toks # <<>> /\ Last(toks).kind = "error" THEN RefBad
        ELSE IF r.ok /\ r.pos = Len(toks) + 1 THEN r ELSE RefBad

\* well formed and with a value
HasValue(text) == LET r == Reference(text) IN r.ok /\ ~r.divzero /\ ~r.undefined

Success(v) == [value |-> v, ok |-> TRUE, ub |-> FALSE]

(***************************************************************************)
(* Claims about EvaluateExpression, checked under SpecEval.                *)
(***************************************************************************)
RefTokens(text) == RefLex(text, 1, <<>>)

\* the expression applies / or %
UsesDivision(text) == \E i \in 1..Len(RefTokens(text)) : RefTokens(text)[i].text \in {"/", "%"}

\* the expression has no shift, no ^ and no two closing parentheses in a row
NoShiftXorNesting(text) ==
    LET toks == RefTokens(text)
    IN  /\ \A i \in 1..Len(toks) : toks[i].text \notin {"<<", ">>", "^"}
        /\ \A i \in 1..(Len(toks) - 1) : ~(toks[i].text = ")" /\ toks[i + 1].text = ")")

HasIllegalCharacter(text) == \E i \in 1..Len(text) : ~IsLegalCharacter(text[i])

\* C6: for every well-formed expression that has a value, EvaluateExpression
\* returns (v, true) with v the value of the recursive-descent reference.
C6_AgreesWithReference ==
    (epc = "returned" /\ HasValue(expr)) => ret = Success(Reference(expr).value)

\* C7: every binary operator is accepted in a OP b between two literals and
\* yields (a OP b, true) with the C meaning of OP (division by zero aside).
C7_EveryOperatorEvaluates ==
    \A a \in 0..MaxDigit, b \in 0..MaxDigit, op \in BinaryOperators, sp \in Spacings :
        (/\ epc = "returned"
         /\ expr = <<DigitChar[a]>> \o sp \o OperatorText[op] \o sp \o <<DigitChar[b]>>
         /\ ~(op \in {"/", "%"} /\ b = 0))
        => ret = Success(RefApply(op, a, b))

\* C8: an expression that applies / or % returns (0, false) exactly when a
\* divisor, the operand written to the right of the operator, evaluates to 0;
\* otherwise it returns its value, so 0 / 5 and 0 % 5 give (0, true).  Stated
\* for the well-formed expressions without shift, ^ and "))".
C8_DivisionByZero ==
    (/\ epc = "returned"
     /\ Reference(expr).ok
     /\ ~Reference(expr).undefined
     /\ UsesDivision(expr)
     /\ NoShiftXorNesting(expr))
    => ret = (IF Reference(expr).divzero THEN Failure ELSE Success(Reference(expr).value))

\* a zero dividend accepted and a zero divisor inside a longer expression refused
C8_Witness ==
    /\ epc = "returned"
    /\ expr = <<"0", " ", "%", " ", "1", " ", "+", " ", "1">>
    /\ ret = Success(1)

\* C9: an expression with a character outside the legal set, at any position,
\* returns (0, false), and no token of it is produced or evaluated.
C9_IllegalCharacter ==
    (HasIllegalCharacter(expr) /\ epc # "start")
    => /\ epc = "returned"
       /\ ret = Failure
       /\ tokenizer.tokens = <<>>
       /\ queue = <<>>
       /\ operands = <<>>

\* the illegal character follows a legal operand
C9_Witness == epc = "returned" /\ expr = <<"1", " ", "@", " ", "2">> /\ ret = Failure

\* C10: (v, true) is returned only when no operator was reached with fewer than
\* two operands and exactly one operand, v, was left at the end of the queue;
\* an operator short of operands returns (0, false), as does any other count.
C10_OperandCount ==
    /\ (epc = "returned" /\ ret.ok) => (~underflow /\ queue = <<>> /\ Len(operands) = 1 /\ ret.value = operands[1])
    /\ underflow => (epc = "returned" /\ ret = Failure)
    /\ (epc = "returned" /\ Len(operands) # 1) => ret = Failure

\* "1 +" reaches + with one operand
C10_Witness == epc = "returned" /\ expr = <<"1", " ", "+">> /\ underflow /\ ret = Failure

(***************************************************************************)
(* Precedence and associativity in expressions without parentheses.        *)
(***************************************************************************)
\* the class of an operator in the order from tightest to loosest:
\* multiplicative, additive, (shift), relational, equality, bit-AND,
\* (bit-XOR), bit-OR, logical-AND, logical-OR
RefClass ==
    ("*" :> 1) @@ ("/" :> 1) @@ ("%" :> 1) @@ ("+" :> 2) @@ ("-" :> 2) @@
    ("<" :> 4) @@ (">" :> 4) @@ ("<=" :> 4) @@ (">=" :> 4) @@ ("==" :> 5) @@ ("!=" :> 5) @@
    ("&" :> 6) @@ ("|" :> 8) @@ ("&&" :> 9) @@ ("||" :> 10)

\* literal, operator, literal, ..., literal, with operators of RefClass only
IsFlat(toks) ==
    /\ Len(toks) % 2 = 1
    /\ \A i \in DOMAIN toks :
          IF i % 2 = 1 THEN toks[i].kind = "num"
          ELSE toks[i].kind = "sym" /\ toks[i].text \in DOMAIN RefClass

\* the operator applied first: of the tightest class, and the leftmost of them
RefFirst(toks) ==
    CHOOSE i \in DOMAIN toks :
        /\ i % 2 = 0
        /\ \A j \in DOMAIN toks :
              j % 2 = 0 => \/ RefClass[toks[i].text] < RefClass[toks[j].text]
                           \/ RefClass[toks[i].text] = RefClass[toks[j].text] /\ i <= j

RECURSIVE RefReduce(_)
\* the value of a flat expression, [ok, value]: not ok when a division by zero is met
RefReduce(toks) ==
    IF Len(toks) = 1 THEN [ok |-> TRUE, value |-> toks[1].value]
    ELSE LET i  == RefFirst(toks)
             op == toks[i].text
             a  == toks[i - 1].value
             b  == toks[i + 1].value
         IN  IF (op \in {"/", "%"} /\ b = 0) \/ IsUndefined(op, a, b)
             THEN [ok |-> FALSE, value |-> 0]
             ELSE RefReduce(SubSeq(toks, 1, i - 2) \o <<RefNum(RefApply(op, a, b))>> \o SubSeq(toks, i + 2, Len(toks)))

\* C16: in an expression without parentheses over * / % + - < > <= >= == !=
\* & | && ||, an operator of an earlier class binds tighter than one of a
\* later class and operators of one class associate from left to right:
\* the value returned is the one found by applying, again and again, the
\* leftmost operator of the tightest class.
C16_PrecedenceAndAssociativity ==
    (epc = "returned" /\ IsFlat(RefTokens(expr)) /\ RefReduce(RefTokens(expr)).ok) =>
        ret = Success(RefReduce(RefTokens(expr)).value)

\* 2 + 3 * 4 has given 14
C16_Witness ==
    /\ epc = "returned"
    /\ expr = <<"2", " ", "+", " ", "3", " ", "*", " ", "4">>
    /\ ret = Success(14)

\* the expression has a parenthesis
HasParenthesis(text) == \E i \in DOMAIN text : text[i] \in {"(", ")"}

\* the expression has no shift and no ^
NoShiftXor(text) == \A i \in 1..Len(RefTokens(text)) : RefTokens(text)[i].text \notin {"<<", ">>", "^"}

\* C17: an expression with balanced parentheses, at any depth and also with
\* two closing parentheses in a row as in ((1 + 2)) and (1 + (2 * 3)), is
\* tokenized without failure and returns the value of the expression with
\* the parentheses honoured.
C17_ParenthesesHonoured ==
    (epc = "returned" /\ HasParenthesis(expr) /\ NoShiftXor(expr) /\ HasValue(expr)) =>
        ~tokenizer.failed /\ ret = Success(Reference(expr).value)

(***************************************************************************)
(* An operator character that follows an operator token.                   *)
(***************************************************************************)
\* the operator characters among the characters of the expressions
OperatorCharacters == ExprAlphabet \cap {"!", "%", "&", "(", ")", "*", "+", "-", "/", "<", "=", ">", "|"}

\* the pairs that spell an operator of two characters other than a shift
Mergeable == {<<"<", "=">>, <<">", "=">>, <<"=", "=">>, <<"!", "=">>, <<"&", "&">>, <<"|", "|">>}

\* the tokenizer after a literal of value n and the operator characters c1 c2, c2 not "("
RefAdjacent(n, c1, c2) ==
    IF <<c1, c2>> \in Mergeable
    THEN {[tokens |-> <<OperandToken(n), OperatorToken(c1 \o c2)>>, failed |-> FALSE]}
    ELSE IF c1 = ")" /\ c2 # ")"
    THEN {[tokens |-> <<OperandToken(n), OperatorToken(c1), OperatorToken(c2)>>, failed |-> FALSE]}
    ELSE {t \in {tokenized} : t.failed}

\* C18: an operator character other than ( that follows an operator token
\* is merged with it only if the two spell <=, >=, ==, !=, && or ||, starts
\* a token of its own only if the token before is ) and the character is
\* not ), and in every other case sets the failed flag.  Stated for a
\* literal followed by two operator characters.
C18_AdjacentOperators ==
    \A n \in 0..MaxDigit, c1 \in OperatorCharacters, c2 \in OperatorCharacters \ {"("} :
        (epc # "start" /\ expr = <<DigitChar[n], c1, c2>>) => tokenized \in RefAdjacent(n, c1, c2)

(***************************************************************************)
(* The end of the conversion to postfix, and the operators = and !.        *)
(***************************************************************************)
\* a token is an operator other than a parenthesis
IsPlainOperator(t) == t.type = "OPERATOR" /\ t.oper \notin {"(", ")"}

\* tokens without their precedence
Plain(tokens) == [i \in DOMAIN tokens |-> [type |-> tokens[i].type, oper |-> tokens[i].oper, operand |-> tokens[i].operand]]

\* C19: when the tokens are exhausted every operator left on the stack
\* other than ( goes to the output, those beneath an unmatched ( too, and
\* an unmatched ( is dropped without failure: the postfix sequence holds
\* every operator of the expression, and 1 + (2 gives 1 2 +.
C19_RemainingOperators ==
    /\ epc = "evaluating" =>
          /\ Len(SelectSeq(postfix, IsPlainOperator)) = Len(SelectSeq(tokenized.tokens, IsPlainOperator))
          /\ \A i \in DOMAIN postfix : postfix[i].oper \notin {"(", ")"}
    /\ (epc \notin {"start", "tokenized"} /\ expr = <<"1", " ", "+", " ", "(", "2">>) =>
          ~tokenizer.failed /\ Plain(postfix) = Plain(<<OperandToken(1), OperandToken(2), OperatorToken("+")>>)

\* the tokenizer left = or ! as an operator of its own
HasLoneOperator == \E i \in DOMAIN tokenized.tokens : tokenized.tokens[i].type = "OPERATOR" /\ tokenized.tokens[i].oper \in {"=", "!"}

\* C20: an expression in which = or ! remains as an operator token, not
\* merged into ==, !=, <= or >=, never evaluates: (0, false) is returned.
C20_LoneOperatorFails ==
    (epc = "returned" /\ HasLoneOperator) => ret = Failure


\* a run as the claim reads it: an integer as it stands, anything else the operand 0
RefRunShown(run) ==
    IF run = <<>> THEN <<>>
    ELSE IF \A k \in DOMAIN run : run[k] \in Digits THEN run
    ELSE <<"0">>

RECURSIVE RefZeroRuns(_, _, _)
\* the text from position i on, behind the pending run, with every maximal
\* run of characters that are no delimiters shown by RefRunShown
RefZeroRuns(text, i, run) ==
    IF i > Len(text) THEN RefRunShown(run)
    ELSE IF text[i] \in Delimiters THEN RefRunShown(run) \o <<text[i]>> \o RefZeroRuns(text, i + 1, <<>>)
    ELSE RefZeroRuns(text, i + 1, Append(run, text[i]))

\* two runs with blanks and nothing else between them
RefAdjacentRuns(text) ==
    \E i \in DOMAIN text, j \in DOMAIN text :
        /\ i + 1 < j
        /\ text[i] \notin Delimiters
        /\ text[j] \notin Delimiters
        /\ \A k \in (i + 1)..(j - 1) : text[k] = " "

Expr_aba_plus_1 == <<"a", "b", "a", " ", "+", " ", "1">>

\* C25: in an expression of legal characters a maximal run of characters
\* that are no delimiters and that is not a decimal integer becomes an
\* operand token of value 0 and does not set the failed flag: the tokenizer
\* ends as it does on the expression with 0 written for the run, and
\* aba + 1 evaluates to (1, true).  Two runs with no operator between them
\* set the failed flag.
C25_NonIntegerOperand ==
    (epc # "start" /\ ~HasIllegalCharacter(expr)) =>
        /\ tokenized = Tokenize(RefZeroRuns(expr, 1, <<>>))
        /\ RefAdjacentRuns(expr) => tokenized.failed
        /\ (expr = Expr_aba_plus_1 /\ epc = "returned") => ret = Success(1)

\* aba + 1 has returned: the tokens are 0 + 1, the flag is clear
C25_Witness ==
    /\ expr = Expr_aba_plus_1
    /\ epc = "returned"
    /\ Len(tokenized.tokens) = 3
    /\ tokenized.tokens[1] = OperandToken(0)
    /\ tokenized.tokens[3] = OperandToken(1)
    /\ ~tokenized.failed
    /\ ret = Success(1)

=============================================================================
